---- MODULE Spec2Model ----
(***************************************************************************)
(* A model of GitSourceControlUtils (UEGitPlugin): the lock cache and its  *)
(* refresh, the status line parser and the aggregation pass, the batch     *)
(* splitter and commit-by-batches, the history parser, the redundant-error *)
(* filter, the state-cache merge, PullOrigin, the remote divergence check  *)
(* and the parser of a lock line.                                          *)
(*                                                                         *)
(* Each component has its own specification over the shared variables      *)
(* (SpecLocks, SpecStatus, ...): the components do not interact except     *)
(* where one calls the other, and there the caller's action includes the   *)
(* callee's effect.                                                        *)
(***************************************************************************)
EXTENDS Integers, Sequences, FiniteSets, TLC

VARIABLES
    now,            \* FDateTime::Now(), in seconds
    LockUser,       \* Provider.GetLockUser(): the current identity
    LastUpdated,    \* FGitLockedFilesCache::LastUpdated
    LockedFiles,    \* FGitLockedFilesCache::LockedFiles: path -> lock owner
    readOnly,       \* the read-only attribute of each file on disk
    lockCall,       \* the last GetAllLocks call: inputs, queries issued, outputs
    prevLockCall,   \* the GetAllLocks call before it
    lockEdit,       \* the last AddLockedFile or RemoveLockedFile: arguments, what it found
    statusLine,     \* FGitStatusParser: the line given to the constructor
    parsed,         \* FGitStatusParser: the FileState and TreeState members
    LockableTypes,  \* static TArray<FString> LockableTypes
    OutStates,      \* ParseFileStatusResult: the caller's map of states
    statusPass,     \* ParseFileStatusResult: the inputs of the pass that filled OutStates
    StateCache,     \* the provider's cache of states: path -> state
    IgnoreForceCache, \* the provider's files to skip on the next forced update
    merge,          \* UpdateCachedStates: the map given to the call, its return value
    commandRun,     \* RunCommand, RunCommit: the subprocesses of the call, its return value
    historyRun,     \* RunGetHistory: the log given to the call, its history, its return value
    errorsRun,      \* RemoveRedundantErrors: the command before and after the call
    pullPc,         \* PullOrigin: where the call is
    pullCall,       \* PullOrigin: the locals of the call and its return value
    mainThreadTasks, \* the work PullOrigin gave to the main thread, and how far it is
    pullProcess,    \* the "pull" subprocess
    remoteRun,      \* CheckRemote: the inputs of the call, its locals, the states it leaves
    bPendingRestart, \* Provider.bPendingRestart
    lockLine,       \* FGitLfsLocksParser: the line given to the constructor, the identity then
    locksParser     \* FGitLfsLocksParser: the LocalFilename and LockUser members

lockVars ==
    <<now, LockUser, LastUpdated, LockedFiles, readOnly, lockCall, prevLockCall, lockEdit>>
parserVars == <<statusLine, parsed>>
statusVars == <<LockableTypes, OutStates, statusPass>>
cacheVars == <<StateCache, IgnoreForceCache, merge>>
commandVars == <<commandRun>>
historyVars == <<historyRun>>
errorsVars == <<errorsRun>>
pullVars == <<pullPc, pullCall, mainThreadTasks, pullProcess>>
remoteVars == <<remoteRun, bPendingRestart>>
locksParserVars == <<lockLine, locksParser>>

vars ==
    <<lockVars, parserVars, statusVars, cacheVars, commandVars, historyVars, errorsVars,
      pullVars, remoteVars, locksParserVars>>

\* What each component leaves alone.
exceptLocks ==
    <<parserVars, statusVars, cacheVars, commandVars, historyVars, errorsVars, pullVars, remoteVars, locksParserVars>>
exceptParser ==
    <<lockVars, statusVars, cacheVars, commandVars, historyVars, errorsVars, pullVars, remoteVars, locksParserVars>>
exceptStatus ==
    <<parserVars, cacheVars, commandVars, historyVars, errorsVars, pullVars, remoteVars, locksParserVars>>
exceptCache ==
    <<lockVars, parserVars, statusVars, commandVars, historyVars, errorsVars, pullVars, remoteVars, locksParserVars>>
exceptCommand ==
    <<lockVars, parserVars, statusVars, cacheVars, historyVars, errorsVars, pullVars, remoteVars, locksParserVars>>
exceptHistory ==
    <<lockVars, parserVars, statusVars, cacheVars, commandVars, errorsVars, pullVars, remoteVars, locksParserVars>>
exceptErrors ==
    <<lockVars, parserVars, statusVars, cacheVars, commandVars, historyVars, pullVars,
      remoteVars, locksParserVars>>
exceptPull ==
    <<lockVars, parserVars, statusVars, cacheVars, commandVars, historyVars, errorsVars,
      remoteVars, locksParserVars>>
exceptLocksParser ==
    <<lockVars, parserVars, statusVars, cacheVars, commandVars, historyVars, errorsVars,
      pullVars, remoteVars>>
exceptRemote ==
    <<lockVars, parserVars, statusVars, cacheVars, commandVars, historyVars, errorsVars,
      pullVars, locksParserVars>>

----------------------------------------------------------------------------
(* Maps (TMap): functions whose domain is the set of keys.                  *)

EmptyMap == <<>>

\* TMap::Add: insert or replace.
MapAdd(m, k, v) == [x \in (DOMAIN m) \cup {k} |-> IF x = k THEN v ELSE m[x]]

\* TMap::Remove.
MapRemove(m, k) == [x \in (DOMAIN m) \ {k} |-> m[x]]


----------------------------------------------------------------------------
(* Files, identities, time.                                                 *)

RepositoryRoot == "root"

\* Relative file names the commands print.
FileNames == {"a", "b"}

\* FPaths::ConvertRelativePathToFull(InRepositoryRoot, name)
ConvertRelativePathToFull(root, name) == <<root, name>>

\* The files of the working tree, by absolute path.
DiskFiles == {ConvertRelativePathToFull(RepositoryRoot, f) : f \in FileNames}

\* An empty FString used as a path.
NoFilename == <<>>

\* The identity GetLockUser returns (git config user.name).
Identities == {"me"}

\* Another user of the lock server.
OtherUser == "other"

\* FDateTime::MinValue(), the origin of the time scale.
MinValue == 0

\* The time of the first operation of a run, and how far a run goes.
StartTime == 100
MaxElapsed == 62
TickSteps == {29, 30, 31}

\* const FTimespan CacheLimit = FTimespan::FromSeconds(30);
CacheLimit == 30

----------------------------------------------------------------------------
(* FGitLfsLocksParser: one line of "git lfs locks".  A line is the tuple of *)
(* its tab-separated fields, as printed (a field may be empty or blank).    *)

Blank == " "

\* FString::TrimEndInline on a field.
TrimEnd(field) == IF field = Blank THEN "" ELSE field

\* FString::ParseIntoArray(.., TEXT("\t"), true): empty fields are culled.
ParseIntoArray(line) == SelectSeq(line, LAMBDA f : f # "")

\* FString::StartsWith(TEXT("ID:"))
IsIdField(field) == field \in {"ID:1", "ID:2"}

\* The lock of the current user only when the second field is the ID.
IsCurrentUserOnlyById(Informations, second) == IsIdField(second)

\* "Filename ID", or the second field is empty, or is the ID: the lock is
\* taken to be the current user's.
IsCurrentUser(Informations, second) ==
    Len(Informations) = 2 \/ second = "" \/ IsIdField(second)

FGitLfsLocksParser(line, user) ==
    LET Informations == ParseIntoArray(line)
    IN  IF Len(Informations) >= 2
        THEN LET name == TrimEnd(Informations[1])
                 second == TrimEnd(Informations[2])
             IN  [ LocalFilename |-> ConvertRelativePathToFull(RepositoryRoot, name),
                   LockUser |-> IF IsCurrentUser(Informations, second)
                                THEN user
                                ELSE second ]
        ELSE [ LocalFilename |-> NoFilename, LockUser |-> "" ]

\* The lines given to the parser: a name, then nothing, or one field, or a
\* field and an ID.
LockLineNames == {"a", "b", "c"}

LockLineFields == {"", Blank, "me", OtherUser, "ID:1", "ID:2"}

LockLines ==
    { <<name>> : name \in LockLineNames }
        \cup { <<name, field>> : name \in LockLineNames, field \in LockLineFields }
        \cup { <<name, field, id>> : name \in LockLineNames, field \in LockLineFields,
                                     id \in {"ID:1", "ID:2"} }

\* No line, and the members before the constructor has set them.
NoLockLine == [ InStatus |-> <<>>, user |-> "" ]

NoLockFile == [ LocalFilename |-> NoFilename, LockUser |-> "" ]

----------------------------------------------------------------------------
(* FGitLockedFilesCache                                                     *)

\* FPlatformFile::SetReadOnly: only a file on disk has the attribute.
SetReadOnly(ro, path, value) ==
    IF path \in DOMAIN ro THEN [ro EXCEPT ![path] = value] ELSE ro

\* The attribute is never touched.
OnFileLockChangedNever(ro, identity, filePath, lockUser, locked) == ro

\* OnFileLockChanged(filePath, lockUser, locked)
OnFileLockChanged(ro, identity, filePath, lockUser, locked) ==
    IF identity = lockUser THEN SetReadOnly(ro, filePath, ~locked) ELSE ro

\* The read-only attributes after SetLockedFiles(newLocks): the two loops
\* touch disjoint sets of paths, each path once.
SetLockedFilesAttrs(ro, identity, oldLocks, newLocks) ==
    [p \in DOMAIN ro |->
        IF p \in DOMAIN oldLocks /\ p \notin DOMAIN newLocks
        THEN OnFileLockChanged(ro, identity, p, oldLocks[p], FALSE)[p]
        ELSE IF p \in DOMAIN newLocks /\ p \notin DOMAIN oldLocks
        THEN OnFileLockChanged(ro, identity, p, newLocks[p], TRUE)[p]
        ELSE ro[p]]

----------------------------------------------------------------------------
(* GetAllLocks                                                              *)

\* Only a forced refresh finds the cache expired.
CacheExpiredForced(bInvalidateCache, CurrentTime, Updated) == bInvalidateCache

\* Every refresh finds the cache expired.
CacheExpiredAlways(bInvalidateCache, CurrentTime, Updated) == TRUE

\* bCacheExpired
CacheExpired(bInvalidateCache, CurrentTime, Updated) ==
    IF bInvalidateCache THEN TRUE ELSE CurrentTime - Updated > CacheLimit

\* Every loop keeps every parsed lock.
KeepsAll(keep, user, identity) == TRUE

\* No loop adds a lock.
AddLocksNone(out, lines, identity, keep) == out

\* Which parsed locks a loop keeps: all of them (the remote query), only
\* those of other users ("--cached"), only the current user's ("--local").
Keeps(keep, user, identity) ==
    CASE keep = "all" -> TRUE
      [] keep = "others" -> user # identity
      [] keep = "own" -> user = identity

\* The loop over the lines of one query: every parsed lock the loop keeps
\* is added to the output map, in order.
RECURSIVE AddLocks(_, _, _, _)
AddLocks(out, lines, identity, keep) ==
    IF lines = <<>> THEN out
    ELSE LET LockFile == FGitLfsLocksParser(Head(lines), identity)
         IN  AddLocks(IF Keeps(keep, LockFile.LockUser, identity)
                      THEN MapAdd(out, LockFile.LocalFilename, LockFile.LockUser)
                      ELSE out,
                      Tail(lines), identity, keep)

\* The fallback tier: "locks --cached" then "locks --local".
FallbackLocks(out, identity, q) ==
    AddLocks(AddLocks(out, q.cachedRes, identity, "others"), q.localRes, identity, "own")

\* The last tier merges into the output instead of replacing it.
LastResortMerged(out, cache) ==
    [p \in (DOMAIN out) \cup (DOMAIN cache) |-> IF p \in DOMAIN cache THEN cache[p] ELSE out[p]]

\* OutLocks = FGitLockedFilesCache::GetLockedFiles();
LastResort(out, cache) == cache

(* The whole call, as a function of the state and of what the environment   *)
(* answers (q): the caller's flag and output map, whether the module is     *)
(* still loaded, and the exit status and output of each subprocess.         *)
GetAllLocksResult(t, identity, updated, cache, ro, q) ==
    LET expired == CacheExpired(q.force, t, updated)
        remoteOut == AddLocks(q.inLocks, q.remoteRes, identity, "all")
        fallbackOut == FallbackLocks(q.inLocks, identity, q)
        fallbackOk == q.module /\ q.cachedOk /\ q.localOk
    IN  IF expired /\ q.remoteOk
        THEN [ result |-> TRUE, out |-> remoteOut, updated |-> t, cache |-> remoteOut,
               ro |-> SetLockedFilesAttrs(ro, identity, cache, remoteOut),
               remote |-> "ok", fallback |-> "none", queries |-> 1 ]
        ELSE IF expired /\ fallbackOk
        THEN [ result |-> TRUE, out |-> fallbackOut, updated |-> updated, cache |-> cache,
               ro |-> ro, remote |-> "fail", fallback |-> "ok", queries |-> 3 ]
        ELSE IF expired
        THEN [ result |-> TRUE,
               out |-> LastResort(IF q.module THEN fallbackOut ELSE q.inLocks, cache),
               updated |-> updated, cache |-> cache, ro |-> ro,
               remote |-> "fail", fallback |-> "fail",
               queries |-> IF q.module THEN 3 ELSE 1 ]
        ELSE [ result |-> TRUE, out |-> LastResort(q.inLocks, cache),
               updated |-> updated, cache |-> cache, ro |-> ro,
               remote |-> "none", fallback |-> "none", queries |-> 0 ]

\* What the lock queries can print: the remote query, "--cached", "--local".
RemoteOutputs ==
    { <<>>,
      << <<"a", OtherUser, "ID:1">> >>,
      << <<"a", "me", "ID:1">>, <<"b", OtherUser>> >>,
      << <<"b", "ID:2">> >>,
      << <<"a">>, <<"b", Blank, "ID:2">> >> }

CachedOutputs ==
    { <<>>,
      << <<"a", OtherUser, "ID:1">>, <<"b", "ID:2">> >>,
      << <<"a", "me", "ID:1">> >> }

LocalOutputs ==
    { <<>>,
      << <<"b", "ID:2">>, <<"a", OtherUser, "ID:1">> >>,
      << <<"a", OtherUser, "ID:1">> >> }

\* What the caller's output map can hold on entry.
CallerMaps == { EmptyMap, MapAdd(EmptyMap, ConvertRelativePathToFull(RepositoryRoot, "b"), OtherUser) }

\* The answers of the environment to one call.  The output of a query
\* the code does not read (the remote query's when it failed, the
\* fallback queries' when the remote one succeeded or the module is gone)
\* is left empty.
QueriesOver(maps, remote, cached, local) ==
    [ force : BOOLEAN, inLocks : maps, module : {TRUE},
      remoteOk : {TRUE}, remoteRes : remote,
      cachedOk : {TRUE}, cachedRes : {<<>>}, localOk : {TRUE}, localRes : {<<>>} ]
    \cup
    [ force : BOOLEAN, inLocks : maps, module : {TRUE},
      remoteOk : {FALSE}, remoteRes : {<<>>},
      cachedOk : BOOLEAN, cachedRes : cached,
      localOk : BOOLEAN, localRes : local ]
    \cup
    [ force : BOOLEAN, inLocks : maps, module : {FALSE},
      remoteOk : {FALSE}, remoteRes : {<<>>},
      cachedOk : {FALSE}, cachedRes : {<<>>}, localOk : {FALSE}, localRes : {<<>>} ]

LockQueries == QueriesOver(CallerMaps, RemoteOutputs, CachedOutputs, LocalOutputs)

\* The calls of the timed specification: a fresh output map, one lock or none.
TimedQueries ==
    QueriesOver({EmptyMap}, {<<>>, << <<"a", "me", "ID:1">> >>},
                {<<>>, << <<"a", OtherUser, "ID:1">> >>}, {<<>>})

NoCall == [ time |-> MinValue, q |-> <<>>, remote |-> "never", fallback |-> "none",
            queries |-> 0, result |-> FALSE, out |-> EmptyMap, cache |-> EmptyMap ]

\* What is remembered of a call: when, the answers it got (q), how far it
\* went, what it returned (result, out) and the cache it left.
CallRecord(t, q, r) ==
    [ time |-> t, q |-> q, remote |-> r.remote, fallback |-> r.fallback,
      queries |-> r.queries, result |-> r.result, out |-> r.out, cache |-> r.cache ]

\* The summary kept of the call before the last one.
NoSummary == [ time |-> MinValue, force |-> FALSE, remote |-> "never", queries |-> 0 ]

Summary(c) ==
    IF c.remote = "never" THEN NoSummary
    ELSE [ time |-> c.time, force |-> c.q.force, remote |-> c.remote, queries |-> c.queries ]

GetAllLocksCall(q) ==
    LET r == GetAllLocksResult(now, LockUser, LastUpdated, LockedFiles, readOnly, q)
    IN  /\ LastUpdated' = r.updated
        /\ LockedFiles' = r.cache
        /\ readOnly' = r.ro
        /\ lockCall' = CallRecord(now, q, r)
        /\ UNCHANGED <<now, LockUser, lockEdit>>

\* A refresh in the timed specification, which also remembers the call before.
GetAllLocks ==
    \E q \in TimedQueries :
        /\ GetAllLocksCall(q)
        /\ prevLockCall' = Summary(lockCall)
        /\ UNCHANGED exceptLocks

\* A refresh with any of the query outputs.
GetAllLocksAnyOutput ==
    \E q \in LockQueries :
        /\ GetAllLocksCall(q)
        /\ UNCHANGED <<prevLockCall, exceptLocks>>

\* The calls made between edits of the cache: a fresh output map, and a
\* remote answer that gives path a to another user or to the identity.
SyncQueries ==
    QueriesOver({EmptyMap},
                {<<>>, << <<"a", OtherUser, "ID:1">> >>,
                 << <<"a", "me", "ID:1">>, <<"b", OtherUser>> >>},
                {<<>>}, {<<>>})

\* A refresh between edits of the cache.
GetAllLocksBetweenEdits ==
    \E q \in SyncQueries :
        /\ GetAllLocksCall(q)
        /\ UNCHANGED <<prevLockCall, exceptLocks>>

\* Time passes between two operations.
Tick ==
    \E d \in TickSteps :
        /\ now + d <= StartTime + MaxElapsed
        /\ now' = now + d
        /\ UNCHANGED <<LockUser, LastUpdated, LockedFiles, readOnly, lockCall, prevLockCall,
                       lockEdit>>
        /\ UNCHANGED exceptLocks

\* The owners AddLockedFile is given.
LockOwners == { "me", OtherUser, "" }

\* What is remembered of an AddLockedFile or RemoveLockedFile: its arguments,
\* the identity, the owner cached for the path (user, empty when the path
\* was not cached) and the attributes it found.
NoEdit ==
    [ op |-> "none", filePath |-> NoFilename, lockUser |-> "", identity |-> "",
      cached |-> FALSE, user |-> "", readOnly |-> <<>> ]

AddLockedFile ==
    \E filePath \in DiskFiles, lockUser \in LockOwners :
        /\ LockedFiles' = MapAdd(LockedFiles, filePath, lockUser)
        /\ readOnly' = OnFileLockChanged(readOnly, LockUser, filePath, lockUser, TRUE)
        /\ lockEdit' = [ op |-> "AddLockedFile", filePath |-> filePath, lockUser |-> lockUser,
                         identity |-> LockUser, cached |-> filePath \in DOMAIN LockedFiles,
                         user |-> IF filePath \in DOMAIN LockedFiles THEN LockedFiles[filePath]
                                  ELSE "",
                         readOnly |-> readOnly ]
        /\ UNCHANGED <<now, LockUser, LastUpdated, lockCall, prevLockCall, exceptLocks>>

\* RemoveAndCopyValue leaves user empty when the path is not cached.
RemoveLockedFile ==
    \E filePath \in DiskFiles :
        LET user == IF filePath \in DOMAIN LockedFiles THEN LockedFiles[filePath] ELSE ""
        IN  /\ LockedFiles' = MapRemove(LockedFiles, filePath)
            /\ readOnly' = OnFileLockChanged(readOnly, LockUser, filePath, user, FALSE)
            /\ lockEdit' = [ op |-> "RemoveLockedFile", filePath |-> filePath, lockUser |-> "",
                             identity |-> LockUser, cached |-> filePath \in DOMAIN LockedFiles,
                             user |-> user, readOnly |-> readOnly ]
            /\ UNCHANGED <<now, LockUser, LastUpdated, lockCall, prevLockCall, exceptLocks>>

\* The provider takes its identity from GetUserConfig: the first line of
\* "config user.name", or nothing.
UserNames == { <<>>, <<"me">> }

GetUserConfig ==
    \E bResults \in BOOLEAN, InfoMessages \in UserNames :
        /\ LockUser' = IF bResults /\ Len(InfoMessages) > 0 THEN InfoMessages[1] ELSE ""
        /\ UNCHANGED <<now, LastUpdated, LockedFiles, readOnly, lockCall, prevLockCall,
                       lockEdit, exceptLocks>>

\* The parser of a lock line constructed on a line, under the identity the
\* provider has.
ParseLockLine ==
    /\ \E line \in LockLines :
          /\ lockLine' = [ InStatus |-> line, user |-> LockUser ]
          /\ locksParser' = FGitLfsLocksParser(line, LockUser)
    /\ UNCHANGED exceptLocksParser

IdleLocksParser ==
    /\ lockLine = NoLockLine
    /\ locksParser = NoLockFile

IdleLocks ==
    /\ now = StartTime
    /\ LockUser \in Identities
    /\ LastUpdated = MinValue
    /\ LockedFiles = EmptyMap
    /\ readOnly = [f \in DiskFiles |-> TRUE]
    /\ lockCall = NoCall
    /\ prevLockCall = NoSummary
    /\ lockEdit = NoEdit

----------------------------------------------------------------------------
(* FGitStatusParser.  A status line is <<X, Y, " ", name>>: the index and   *)
(* worktree characters, a space, the file name.                             *)

EFileState == {"Unset", "Unknown", "Added", "Copied", "Deleted", "Modified",
               "Renamed", "Missing", "Unmerged"}

ETreeState == {"Unset", "Unmodified", "Working", "Staged", "Untracked", "Ignored",
               "NotInRepo"}

ELockState == {"Unset", "Unlockable", "NotLocked", "Locked", "LockedOther"}

ERemoteState == {"Unset", "UpToDate", "NotLatest", "NotAtHead"}

\* The characters of a status code ('T' stands for any other character).
StatusChars == {" ", "M", "A", "D", "R", "C", "U", "?", "!", "T"}

\* What a member read before any assignment can hold: any enumerator, or a
\* value that is none of them.
IndeterminateTreeStates == ETreeState \cup {"Indeterminate"}

\* The first test of the constructor: the "unmerged" cases.
IsConflictOnlyU(IndexState, WCopyState) == IndexState = "U" \/ WCopyState = "U"

IsConflict(IndexState, WCopyState) ==
    \/ IndexState = "U" \/ WCopyState = "U"
    \/ (IndexState = "A" /\ WCopyState = "A")
    \/ (IndexState = "D" /\ WCopyState = "D")

\* The chain with the test of the worktree 'D' before the tests of the index.
StatusFileStateMissingFirst(IndexState, WCopyState) ==
    IF IndexState = "?" \/ WCopyState = "?" THEN "Unknown"
    ELSE IF IndexState = "!" \/ WCopyState = "!" THEN "Unknown"
    ELSE IF WCopyState = "D" THEN "Missing"
    ELSE IF IndexState = "A" THEN "Added"
    ELSE IF IndexState = "D" THEN "Deleted"
    ELSE IF IndexState = "M" \/ WCopyState = "M" THEN "Modified"
    ELSE IF IndexState = "R" THEN "Renamed"
    ELSE IF IndexState = "C" THEN "Copied"
    ELSE "Unknown"

\* The if / else-if chain that assigns FileState.
StatusFileState(IndexState, WCopyState) ==
    IF IndexState = "?" \/ WCopyState = "?" THEN "Unknown"
    ELSE IF IndexState = "!" \/ WCopyState = "!" THEN "Unknown"
    ELSE IF IndexState = "A" THEN "Added"
    ELSE IF IndexState = "D" THEN "Deleted"
    ELSE IF WCopyState = "D" THEN "Missing"
    ELSE IF IndexState = "M" \/ WCopyState = "M" THEN "Modified"
    ELSE IF IndexState = "R" THEN "Renamed"
    ELSE IF IndexState = "C" THEN "Copied"
    ELSE "Unknown"

StatusTreeStatesSwapped(IndexState, WCopyState) ==
    LET spacing == IF IndexState = " " THEN {"Staged"}
                   ELSE IF WCopyState = " " THEN {"Working"}
                   ELSE IndeterminateTreeStates
    IN  IF IndexState = "?" \/ WCopyState = "?" THEN {"Untracked"}
        ELSE IF IndexState = "!" \/ WCopyState = "!" THEN {"Ignored"}
        ELSE spacing

\* The values TreeState can hold after the constructor (when no conflict):
\* the two spacing tests assign it or leave the member as it was, unset by
\* any initialiser; the '?' and '!' tests then overwrite it.
StatusTreeStates(IndexState, WCopyState) ==
    LET spacing == IF IndexState = " " THEN {"Working"}
                   ELSE IF WCopyState = " " THEN {"Staged"}
                   ELSE IndeterminateTreeStates
    IN  IF IndexState = "?" \/ WCopyState = "?" THEN {"Untracked"}
        ELSE IF IndexState = "!" \/ WCopyState = "!" THEN {"Ignored"}
        ELSE spacing

\* The parser objects the constructor can produce for a line.
FGitStatusParser(InResult) ==
    LET IndexState == InResult[1]
        WCopyState == InResult[2]
    IN  IF IsConflict(IndexState, WCopyState)
        THEN { [FileState |-> "Unmerged", TreeState |-> "Working"] }
        ELSE { [FileState |-> StatusFileState(IndexState, WCopyState), TreeState |-> t] :
                 t \in StatusTreeStates(IndexState, WCopyState) }

StatusLineOf(code, name) == <<code[1], code[2], " ", name>>

AllStatusLines == { StatusLineOf(<<x, y>>, n) : x \in StatusChars, y \in StatusChars, n \in FileNames }

NoLine == <<>>
NotParsed == [FileState |-> "Unset", TreeState |-> "Unset"]

\* The constructor applied to one line of status.
ParseStatusLine ==
    \E line \in AllStatusLines :
        \E parser \in FGitStatusParser(line) :
            /\ statusLine' = line
            /\ parsed' = parser
            /\ UNCHANGED exceptParser

IdleParser ==
    /\ statusLine = NoLine
    /\ parsed = NotParsed

----------------------------------------------------------------------------
(* IsFileLFSLockable and CheckLFSLockable                                   *)

\* The extension of a file name.
Extension(name) ==
    CASE name \in {"a", "c"} -> ".uasset"
      [] name = "b" -> ".ini"
      [] OTHER -> ""

\* FString::EndsWith, for an absolute path and a file extension.
EndsWith(path, type) == path # NoFilename /\ Extension(path[2]) = type

IsFileLFSLockable(types, InFile) == \E Type \in types : EndsWith(InFile, Type)

\* The wildcards CheckLFSLockable is asked about: <<"*", extension>>.
Wildcards == { <<"*", ".uasset">>, <<"*", ".ini">> }

\* FString::RightChop(1) on a wildcard: the extension.
RightChop1(wildcard) == wildcard[2]

\* How a line of "check-attr lockable" ends.
AttrValues == {"set", "unset", "unspecified"}

\* Result.EndsWith("set") && !Result.EndsWith("unset")
IsAttrSet(Result) == Result \in {"set", "unset"} /\ Result # "unset"

\* The wildcard lists and the outputs, one line for each wildcard.
WildcardLists == { << <<"*", ".uasset">> >> }

CheckLFSLockable ==
    /\ statusPass.ran = FALSE
    /\ \E InFiles \in WildcardLists, bResults \in BOOLEAN :
        \E Results \in [1..Len(InFiles) -> AttrValues] :
            LockableTypes' =
                IF ~bResults THEN {}
                ELSE { RightChop1(InFiles[i]) : i \in { j \in 1..Len(InFiles) : IsAttrSet(Results[j]) } }
    /\ UNCHANGED <<OutStates, statusPass, lockVars, exceptStatus>>

----------------------------------------------------------------------------
(* ParseFileStatusResult and ParseDirectoryStatusResult                     *)

\* A freshly constructed FGitSourceControlState.
DefaultState ==
    [ FileState |-> "Unknown", TreeState |-> "NotInRepo", LockState |-> "Unset",
      LockUser |-> "", RemoteState |-> "UpToDate", HeadBranch |-> "",
      PendingMergeBaseFileHash |-> "", TimeStamp |-> MinValue ]

\* FGitSourceControlState::IsConflicted
IsConflicted(state) == state.FileState = "Unmerged"

\* The paths a pass is asked about or gets lines for.
StatusPaths == DiskFiles

\* The status codes of the lines given to a pass.
PassCodes == { <<"M", " ">>, <<"D", " ">>, <<"?", "?">>, <<"U", "U">>, <<"M", "M">> }

\* The maps of status lines: path -> the line that names it.
StatusMaps ==
    UNION { { m \in [S -> { StatusLineOf(c, n) : c \in PassCodes, n \in FileNames }] :
                \A path \in S : m[path][4] = path[2] } : S \in SUBSET StatusPaths }

ParserObjects == [FileState : EFileState, TreeState : IndeterminateTreeStates]

\* One parser object for each line of the map.
ParseChoices(results) ==
    { f \in [DOMAIN results -> ParserObjects] :
        \A path \in DOMAIN results : f[path] \in FGitStatusParser(results[path]) }

\* The lock state of an explicit file, from the locks GetAllLocks returned.
LockAnnotation(state, File, locking, types, locks, identity) ==
    IF ~locking THEN [state EXCEPT !.LockState = "Unlockable"]
    ELSE IF IsFileLFSLockable(types, File)
    THEN IF File \in DOMAIN locks
         THEN [state EXCEPT !.LockUser = locks[File],
                            !.LockState = IF identity = locks[File] THEN "Locked"
                                          ELSE "LockedOther"]
         ELSE [state EXCEPT !.LockState = "NotLocked"]
    ELSE [state EXCEPT !.LockState = "Unlockable"]

\* The tree state of a file that has no line of status.
AbsentTreeStateSwapped(exists) == IF exists THEN "NotInRepo" ELSE "Unmodified"

AbsentTreeState(exists) == IF exists THEN "Unmodified" ELSE "NotInRepo"

\* The state the first loop builds for an explicit file.
ExplicitState(File, in, types, locks, identity) ==
    LET bFound == File \in DOMAIN in.InResults
        unset == [DefaultState EXCEPT !.FileState = "Unset", !.TreeState = "Unset",
                                      !.LockState = "Unset"]
        status ==
            IF bFound
            THEN LET st == [unset EXCEPT !.FileState = in.parse[File].FileState,
                                         !.TreeState = in.parse[File].TreeState]
                 IN  IF IsConflicted(st) /\ in.conflictOk
                     THEN [st EXCEPT !.PendingMergeBaseFileHash = "base"]
                     ELSE st
            ELSE [unset EXCEPT !.FileState = "Unknown",
                               !.TreeState = AbsentTreeState(File \in in.exists)]
    IN  LockAnnotation(status, File, in.InUsingLfsLocking, types, locks, identity)

\* ParseDirectoryStatusResult keeps a line when it is one of these.
KeepsLeftoverAll(parser) == TRUE

KeepsLeftover(parser) ==
    \/ parser.FileState = "Deleted"
    \/ parser.FileState = "Missing"
    \/ parser.TreeState = "Untracked"

\* The state ParseDirectoryStatusResult builds for a leftover line.
LeftoverState(path, in) ==
    [ (IF ~in.InUsingLfsLocking THEN [DefaultState EXCEPT !.LockState = "Unlockable"]
       ELSE DefaultState)
      EXCEPT !.FileState = in.parse[path].FileState,
             !.TreeState = in.parse[path].TreeState ]

\* The map after the pass: the explicit files, then the leftover lines.
ParsedStates(out, in, types, locks, identity) ==
    LET leftover == { path \in (DOMAIN in.InResults) \ in.InFiles : KeepsLeftover(in.parse[path]) }
    IN  [ path \in (DOMAIN out) \cup in.InFiles \cup leftover |->
            IF path \in in.InFiles THEN ExplicitState(path, in, types, locks, identity)
            ELSE IF path \in leftover THEN LeftoverState(path, in)
            ELSE out[path] ]

\* The pass that refreshes the lock cache whatever its files are.
RefreshesLocksAlways(in, types) == in.module /\ in.InUsingLfsLocking

\* Whether the pass refreshes the lock cache: at the first lockable file.
RefreshesLocks(in, types) ==
    /\ in.module
    /\ in.InUsingLfsLocking
    /\ \E File \in in.InFiles : IsFileLFSLockable(types, File)

\* The refresh of a pass: not forced, into a fresh map.  The remote query
\* prints a lock, or fails and the fallback prints one, or the module is gone.
StatusQueries ==
    { q \in TimedQueries :
        /\ ~q.force
        /\ q.remoteOk => q.remoteRes # <<>>
        /\ (~q.remoteOk /\ q.module) => (q.cachedOk /\ q.localOk /\ q.cachedRes # <<>>) }

NoQuery == <<>>

NoPass == [ ran |-> FALSE ]

\* The inputs of a pass: the files asked about, the lines of status, the
\* files that exist among those without a line, the parser object of each
\* line, whether the conflict lookup answers, whether the module is loaded
\* (a pass without the module returns at once: it is given no line).
PassInputs ==
    UNION { UNION { [ ran : {TRUE}, InUsingLfsLocking : BOOLEAN,
                      module : IF results = EmptyMap THEN BOOLEAN ELSE {TRUE},
                      InFiles : {files}, InResults : {results},
                      exists : SUBSET (files \ DOMAIN results),
                      parse : ParseChoices(results),
                      conflictOk : IF \E path \in files \cap DOMAIN results :
                                        IsConflict(results[path][1], results[path][2])
                                   THEN BOOLEAN ELSE {FALSE} ] :
                    files \in SUBSET StatusPaths } : results \in StatusMaps }

ParseFileStatusResult ==
    /\ statusPass.ran = FALSE
    /\ \E in \in PassInputs :
        \E q \in (IF RefreshesLocks(in, LockableTypes) THEN StatusQueries ELSE {NoQuery}) :
            LET refresh == RefreshesLocks(in, LockableTypes)
                locks == IF refresh
                         THEN GetAllLocksResult(now, LockUser, LastUpdated, LockedFiles,
                                                readOnly, q).out
                         ELSE EmptyMap
            IN  /\ IF refresh
                   THEN GetAllLocksCall(q) /\ UNCHANGED prevLockCall
                   ELSE UNCHANGED lockVars
                /\ OutStates' = IF in.module
                                THEN ParsedStates(OutStates, in, LockableTypes, locks, LockUser)
                                ELSE OutStates
                /\ statusPass' = [ in |-> in, ran |-> TRUE, refreshes |-> IF refresh THEN 1 ELSE 0 ]
                /\ UNCHANGED <<LockableTypes, exceptStatus>>

\* The caller is done with the states of the pass; its map goes away.
DiscardStates ==
    /\ statusPass.ran = TRUE
    /\ OutStates' = EmptyMap
    /\ statusPass' = NoPass
    /\ UNCHANGED <<LockableTypes, lockVars, exceptStatus>>

IdleStatus ==
    /\ LockableTypes = {}
    /\ OutStates = EmptyMap
    /\ statusPass = NoPass

----------------------------------------------------------------------------
(* UpdateCachedStates                                                       *)

\* FGitSourceControlState::IsUnknown
IsUnknown(state) == state.FileState = "Unknown"

\* FGitSourceControlState::CanAdd
CanAdd(state) == state.TreeState = "Untracked"

\* FGitSourceControlProvider::GetStateInternal: the cached state of the
\* file, created on first use.
GetStateInternal(cache, path) == IF path \in DOMAIN cache THEN cache[path] ELSE DefaultState

\* A name of a remote branch.
RemoteBranch == "origin/main"

\* An FGitState: the fields a fragment carries.
Fragment(file, tree, lock, user, remote, head) ==
    [ FileState |-> file, TreeState |-> tree, LockState |-> lock, LockUser |-> user,
      RemoteState |-> remote, HeadBranch |-> head ]

\* The fragments given for the first file, and for the second.
FragmentsOf(path) ==
    IF path[2] = "a"
    THEN { Fragment("Added", "Unset", "Unset", "", "Unset", ""),
           Fragment("Modified", "Working", "Unset", "", "Unset", ""),
           Fragment("Unknown", "Untracked", "Unset", "", "Unset", ""),
           Fragment("Unset", "Untracked", "Unset", "", "Unset", ""),
           Fragment("Unset", "Unset", "Locked", "me", "Unset", ""),
           Fragment("Unset", "Unset", "Unset", "", "UpToDate", RemoteBranch),
           Fragment("Unset", "Unset", "Unset", "", "NotLatest", RemoteBranch),
           Fragment("Added", "Staged", "NotLocked", "", "NotAtHead", RemoteBranch) }
    ELSE { Fragment("Modified", "Working", "Unset", "", "Unset", ""),
           Fragment("Added", "Unset", "Unset", "", "Unset", "") }

\* The maps of fragments a call is given.
FragmentMaps ==
    UNION { { m \in [S -> UNION { FragmentsOf(path) : path \in S }] :
                \A path \in S : m[path] \in FragmentsOf(path) } : S \in SUBSET StatusPaths }

\* The "invalid transition" test.
RejectsNever(State, NewState) == FALSE

Rejects(State, NewState) ==
    /\ NewState.FileState # "Unset"
    /\ NewState.FileState = "Added" /\ ~IsUnknown(State) /\ ~CanAdd(State)

\* The merge that copies every field of the fragment, the unset ones too.
MergedAll(State, NewState, Now) ==
    [ State EXCEPT
        !.FileState = NewState.FileState,
        !.TreeState = NewState.TreeState,
        !.LockState = NewState.LockState,
        !.LockUser = NewState.LockUser,
        !.RemoteState = NewState.RemoteState,
        !.HeadBranch = NewState.HeadBranch,
        !.TimeStamp = Now ]

\* The body of the loop for a fragment that is not rejected.
Merged(State, NewState, Now) ==
    [ State EXCEPT
        !.FileState = IF NewState.FileState # "Unset" THEN NewState.FileState ELSE @,
        !.TreeState = IF NewState.TreeState # "Unset" THEN NewState.TreeState ELSE @,
        !.LockState = IF NewState.LockState # "Unset" THEN NewState.LockState ELSE @,
        !.LockUser = IF NewState.LockState # "Unset" THEN NewState.LockUser ELSE @,
        !.RemoteState = IF NewState.RemoteState # "Unset" THEN NewState.RemoteState ELSE @,
        !.HeadBranch = IF NewState.RemoteState = "Unset" THEN @
                       ELSE IF NewState.RemoteState = "UpToDate" THEN ""
                       ELSE NewState.HeadBranch,
        !.TimeStamp = Now ]

\* The cache after the loop: every file of the map has a cached state
\* (GetStateInternal), merged unless the fragment is rejected.
MergedCache(cache, InResults, Now) ==
    [ path \in (DOMAIN cache) \cup (DOMAIN InResults) |->
        IF path \in DOMAIN InResults
        THEN LET State == GetStateInternal(cache, path)
             IN  IF Rejects(State, InResults[path]) THEN State
                 ELSE Merged(State, InResults[path], Now)
        ELSE cache[path] ]

\* The files the loop passes to AddFileToIgnoreForceCache.
MergedFiles(cache, InResults) ==
    { path \in DOMAIN InResults : ~Rejects(GetStateInternal(cache, path), InResults[path]) }

\* The call that goes to the loop whatever it is given.
ReturnsEarlyNever(InResults, module) == FALSE

\* The returns before the loop: an empty map, no module.
ReturnsEarly(InResults, module) == InResults = EmptyMap \/ ~module

NoMerge == [ ran |-> FALSE ]

UpdateCachedStates ==
    /\ merge.ran = FALSE
    /\ \E InResults \in FragmentMaps, module \in BOOLEAN, bUsingGitLfsLocking \in BOOLEAN :
        LET returnsEarly == ReturnsEarly(InResults, module)
            Now == IF bUsingGitLfsLocking THEN now ELSE MinValue
        IN  /\ StateCache' = IF returnsEarly THEN StateCache
                             ELSE MergedCache(StateCache, InResults, Now)
            /\ IgnoreForceCache' = IF returnsEarly THEN IgnoreForceCache
                                   ELSE IgnoreForceCache \cup MergedFiles(StateCache, InResults)
            /\ merge' = [ ran |-> TRUE, InResults |-> InResults, module |-> module,
                          bUsingGitLfsLocking |-> bUsingGitLfsLocking,
                          before |-> StateCache, ignoreBefore |-> IgnoreForceCache,
                          result |-> ~returnsEarly ]
    /\ UNCHANGED exceptCache

\* The provider takes a file off the files to skip, once a forced update has
\* skipped it.
RemoveFileFromIgnoreForceCache ==
    /\ merge.ran = FALSE
    /\ \E path \in IgnoreForceCache : IgnoreForceCache' = IgnoreForceCache \ {path}
    /\ UNCHANGED <<StateCache, merge, exceptCache>>

\* The caller has the return value; the next call can be made.
ReturnFromUpdate ==
    /\ merge.ran = TRUE
    /\ merge' = NoMerge
    /\ UNCHANGED <<StateCache, IgnoreForceCache, exceptCache>>

IdleCache ==
    /\ StateCache = EmptyMap
    /\ IgnoreForceCache = {}
    /\ merge = NoMerge

----------------------------------------------------------------------------
(* RunCommand, RunCommit                                                    *)

MaxFilesPerBatch == 50

\* The longest list of files given to a command.
MaxFiles == 120

\* The lists of files: n distinct files, in order.
FileLists == { [i \in 1..n |-> i] : n \in 0..MaxFiles }

\* The parameters the callers give.
ParameterLists == { <<>>, <<"--file">> }

\* The commands given to RunCommand.
Commands == { "add", "rm" }

\* The most subprocesses one call starts, and what each of them returns.
MaxCommands == 2 * ((MaxFiles + MaxFilesPerBatch) \div MaxFilesPerBatch)
Outcomes == [1..MaxCommands -> BOOLEAN]

\* One subprocess: what it was given and what it returned.
RunCommandInternal(InCommand, InParameters, InFiles, ok) ==
    [ InCommand |-> InCommand, InParameters |-> InParameters, InFiles |-> InFiles, ok |-> ok ]

\* The loop that fills a batch from FileCount on.
RECURSIVE FilesInBatch(_, _, _)
FilesInBatch(InFiles, FileCount, FileIndex) ==
    IF FileCount < Len(InFiles) /\ FileIndex < MaxFilesPerBatch
    THEN <<InFiles[FileCount + 1]>> \o FilesInBatch(InFiles, FileCount + 1, FileIndex + 1)
    ELSE <<>>

\* The loop that fills the first batch of RunCommit: it does not look at the
\* length of the list, which is longer than a batch.
RECURSIVE FirstFilesInBatch(_, _)
FirstFilesInBatch(InFiles, FileIndex) ==
    IF FileIndex < MaxFilesPerBatch
    THEN <<InFiles[FileIndex + 1]>> \o FirstFilesInBatch(InFiles, FileIndex + 1)
    ELSE <<>>

\* A call so far: its result and the subprocesses it has started.
NoCommands == [ bResult |-> TRUE, commands |-> <<>> ]

\* bResult &= RunCommandInternal(...)
AndRun(run, InCommand, InParameters, InFiles, outcomes) ==
    LET ok == outcomes[Len(run.commands) + 1]
    IN  [ bResult |-> run.bResult /\ ok,
          commands |-> Append(run.commands, RunCommandInternal(InCommand, InParameters, InFiles, ok)) ]

\* The result of the subprocess kept with the result so far.
SetRunKeeps(run, InCommand, InParameters, InFiles, outcomes) ==
    AndRun(run, InCommand, InParameters, InFiles, outcomes)

\* bResult = RunCommandInternal(...)
SetRun(run, InCommand, InParameters, InFiles, outcomes) ==
    LET ok == outcomes[Len(run.commands) + 1]
    IN  [ bResult |-> ok,
          commands |-> Append(run.commands, RunCommandInternal(InCommand, InParameters, InFiles, ok)) ]

\* The while loop of RunCommand.
RECURSIVE RunCommandBatches(_, _, _, _, _, _)
RunCommandBatches(InCommand, InParameters, InFiles, FileCount, outcomes, run) ==
    IF FileCount < Len(InFiles)
    THEN LET batch == FilesInBatch(InFiles, FileCount, 0)
         IN  RunCommandBatches(InCommand, InParameters, InFiles, FileCount + Len(batch), outcomes,
                               AndRun(run, InCommand, InParameters, batch, outcomes))
    ELSE run

RunCommandResult(InCommand, InParameters, InFiles, outcomes) ==
    IF Len(InFiles) > MaxFilesPerBatch
    THEN RunCommandBatches(InCommand, InParameters, InFiles, 0, outcomes, NoCommands)
    ELSE SetRun(NoCommands, InCommand, InParameters, InFiles, outcomes)

AddParameters == <<"-A">>

\* The parameters of the commits after the first.
SameParameters(InParameters) == InParameters

AmendParameters(InParameters) == Append(InParameters, "--amend")

\* The while loop of RunCommit.
RECURSIVE RunCommitBatches(_, _, _, _, _)
RunCommitBatches(Parameters, InFiles, FileCount, outcomes, run) ==
    IF FileCount < Len(InFiles)
    THEN LET batch == FilesInBatch(InFiles, FileCount, 0)
             added == AndRun(run, "add", AddParameters, batch, outcomes)
         IN  RunCommitBatches(Parameters, InFiles, FileCount + Len(batch), outcomes,
                              AndRun(added, "commit", Parameters, batch, outcomes))
    ELSE run

RunCommitResult(InParameters, InFiles, outcomes) ==
    IF Len(InFiles) > MaxFilesPerBatch
    THEN LET batch == FirstFilesInBatch(InFiles, 0)
             added == AndRun(NoCommands, "add", AddParameters, batch, outcomes)
             first == AndRun(added, "commit", InParameters, batch, outcomes)
         IN  RunCommitBatches(AmendParameters(InParameters), InFiles, Len(batch), outcomes, first)
    ELSE LET added == AndRun(NoCommands, "add", AddParameters, InFiles, outcomes)
         IN  SetRun(added, "commit", InParameters, InFiles, outcomes)

NoCommand == [ op |-> "none" ]

CommandRecord(op, InParameters, InFiles, run) ==
    [ op |-> op, InParameters |-> InParameters, InFiles |-> InFiles,
      bResult |-> run.bResult, commands |-> run.commands ]

RunCommand ==
    /\ commandRun = NoCommand
    /\ \E InCommand \in Commands, InParameters \in ParameterLists, InFiles \in FileLists,
          outcomes \in Outcomes :
        commandRun' = CommandRecord("RunCommand", InParameters, InFiles,
                                    RunCommandResult(InCommand, InParameters, InFiles, outcomes))
    /\ UNCHANGED exceptCommand

RunCommit ==
    /\ commandRun = NoCommand
    /\ \E InParameters \in ParameterLists, InFiles \in FileLists, outcomes \in Outcomes :
        commandRun' = CommandRecord("RunCommit", InParameters, InFiles,
                                    RunCommitResult(InParameters, InFiles, outcomes))
    /\ UNCHANGED exceptCommand

\* The caller has the return value; the next call can be made.
ReturnFromCommand ==
    /\ commandRun # NoCommand
    /\ commandRun' = NoCommand
    /\ UNCHANGED exceptCommand

IdleCommand == commandRun = NoCommand

----------------------------------------------------------------------------
(* ParseLogResults, RunGetHistory                                           *)

LogStatusToString(InStatus) ==
    CASE InStatus = " " -> "unmodified"
      [] InStatus = "M" -> "modified"
      [] InStatus = "A" -> "add"
      [] InStatus = "D" -> "delete"
      [] InStatus = "R" -> "branch"
      [] InStatus = "C" -> "branch"
      [] InStatus = "T" -> "type changed"
      [] InStatus = "U" -> "unmerged"
      [] InStatus = "X" -> "unknown"
      [] InStatus = "B" -> "broked pairing"
      [] OTHER -> ""

\* A revision as its constructor leaves it. BranchSource is the place in the
\* history of the revision it points to, 0 when it points to none.
\* An empty FString used as the hash of a blob.
NoFileHash == <<>>

NewRevision ==
    [ CommitId |-> "", RevisionNumber |-> 0, UserName |-> "", Date |-> "",
      Description |-> <<>>, Action |-> "", Filename |-> "", BranchSource |-> 0,
      FileHash |-> NoFileHash, PathToRepoRoot |-> "" ]

\* A line of the log is its marker followed by the rest of the line; a line
\* of a file is its status followed by the names, one tabulation before each.
StartsWith(Result, prefix) == Result[1] = prefix

\* The body of the loop over the lines.
ParseLogLine(parse, Result) ==
    LET Revision == parse.SourceControlRevision
    IN  IF StartsWith(Result, "commit ")
        THEN LET ended == Revision.RevisionNumber # 0
                 started == IF ended THEN NewRevision ELSE Revision
             IN  [ OutHistory |-> IF ended THEN Append(parse.OutHistory, Revision)
                                  ELSE parse.OutHistory,
                   SourceControlRevision |->
                       [ started EXCEPT !.CommitId = Result[2], !.RevisionNumber = -1 ] ]
        ELSE IF StartsWith(Result, "Author: ")
        THEN [ parse EXCEPT !.SourceControlRevision.UserName =
                                IF Len(Result) >= 3 THEN Result[2] ELSE @ ]
        ELSE IF StartsWith(Result, "Date:   ")
        THEN [ parse EXCEPT !.SourceControlRevision.Date = Result[2] ]
        ELSE IF StartsWith(Result, "    ")
        THEN [ parse EXCEPT !.SourceControlRevision.Description = Append(@, Result[2]) ]
        ELSE [ parse EXCEPT !.SourceControlRevision.Action = LogStatusToString(Result[1]),
                            !.SourceControlRevision.Filename =
                                IF Len(Result) >= 2 THEN Result[Len(Result)] ELSE @ ]

RECURSIVE ParseLogLines(_, _)
ParseLogLines(parse, InResults) ==
    IF InResults = <<>> THEN parse
    ELSE ParseLogLines(ParseLogLine(parse, Head(InResults)), Tail(InResults))

\* The source of a "branch" is never set.
BranchSourceNone(Action, RevisionIndex, Num) == 0

\* The source of a "branch": the next revision of the log, if there is one.
BranchSource(Action, RevisionIndex, Num) ==
    IF Action = "branch" /\ RevisionIndex < Num - 1 THEN RevisionIndex + 1 + 1 ELSE 0

\* The loop that numbers the revisions; RevisionIndex counts from 0.
SetRevisionNumbers(OutHistory) ==
    [ i \in DOMAIN OutHistory |->
        LET RevisionIndex == i - 1
            source == BranchSource(OutHistory[i].Action, RevisionIndex, Len(OutHistory))
        IN  [ OutHistory[i] EXCEPT
                !.RevisionNumber = Len(OutHistory) - RevisionIndex,
                !.BranchSource = IF source # 0 THEN source ELSE @ ] ]

ParseLogResults(InResults, OutHistory) ==
    LET parse == ParseLogLines([ SourceControlRevision |-> NewRevision,
                                 OutHistory |-> OutHistory ], InResults)
        ended == IF parse.SourceControlRevision.RevisionNumber # 0
                 THEN Append(parse.OutHistory, parse.SourceControlRevision)
                 ELSE parse.OutHistory
    IN  SetRevisionNumbers(ended)

\* The longest log.
MaxLogLines == 4

LogLines ==
    { <<"commit ", "c1">>, <<"commit ", "c2">>, <<"Author: ", "name", "<mail>">>,
      <<"    ", "message">>, <<"A", "x.txt">>, <<"R", "x.txt", "y.txt">> }

Logs == UNION { [1..n -> LogLines] : n \in 0..MaxLogLines }

\* What the "ls-tree" of a revision does: it fails, gives no line, or gives
\* the line of the blob. At most one of a call does not give the blob.
LsTreeOutcomes ==
    { lsTree \in [1..MaxLogLines -> {"fail", "empty", "blob"}] :
        Cardinality({ i \in 1..MaxLogLines : lsTree[i] # "blob" }) <= 1 }

\* FGitLsTreeParser: the hash of the blob of the revision.
FGitLsTreeParser(Revision) == <<Revision.CommitId, Revision.Filename>>

\* The loop that looks nothing up.
LsTreeRevisionsNone(OutHistory, i, lsTree, bResults) ==
    [ bResults |-> bResults, OutHistory |-> OutHistory ]

\* The loop over the history, from the revision at place i.
RECURSIVE LsTreeRevisions(_, _, _, _)
LsTreeRevisions(OutHistory, i, lsTree, bResults) ==
    IF i > Len(OutHistory) THEN [ bResults |-> bResults, OutHistory |-> OutHistory ]
    ELSE LET ok == bResults /\ lsTree[i] # "fail"
             Revision == [ OutHistory[i] EXCEPT
                             !.FileHash = IF ok /\ lsTree[i] = "blob"
                                          THEN FGitLsTreeParser(OutHistory[i]) ELSE @,
                             !.PathToRepoRoot = RepositoryRoot ]
         IN  LsTreeRevisions([ OutHistory EXCEPT ![i] = Revision ], i + 1, lsTree, ok)

RunGetHistoryResult(InResults, logOk, lsTree, OutHistory) ==
    LsTreeRevisions(IF logOk THEN ParseLogResults(InResults, OutHistory) ELSE OutHistory,
                    1, lsTree, logOk)

NoHistory == [ ran |-> FALSE ]

\* The caller gives a history it has just made.
RunGetHistory ==
    /\ historyRun = NoHistory
    /\ \E InResults \in Logs, logOk \in BOOLEAN, lsTree \in LsTreeOutcomes :
        LET run == RunGetHistoryResult(InResults, logOk, lsTree, <<>>)
        IN  historyRun' = [ ran |-> TRUE, InResults |-> InResults, logOk |-> logOk,
                            lsTree |-> lsTree, bResults |-> run.bResults,
                            OutHistory |-> run.OutHistory ]
    /\ UNCHANGED exceptHistory

\* The caller has the history; the next call can be made.
ReturnFromHistory ==
    /\ historyRun # NoHistory
    /\ historyRun' = NoHistory
    /\ UNCHANGED exceptHistory

IdleHistory == historyRun = NoHistory

----------------------------------------------------------------------------
(* RemoveRedundantErrors                                                    *)

\* FString::Contains, on strings of one case.
Contains(String, SubStr) ==
    \E i \in 0..(Len(String) - Len(SubStr)) : SubSeq(String, i + 1, i + Len(SubStr)) = SubStr

\* The loop over the errors: it adds the errors with the filter to the
\* messages, from the error at place i.
RECURSIVE AddRedundantErrors(_, _, _, _)
AddRedundantErrors(ErrorMessages, i, InFilter, found) ==
    IF i > Len(ErrorMessages) THEN found
    ELSE AddRedundantErrors(ErrorMessages, i + 1, InFilter,
            IF Contains(ErrorMessages[i], InFilter)
            THEN [ InfoMessages |-> Append(found.InfoMessages, ErrorMessages[i]),
                   bFoundRedundantError |-> TRUE ]
            ELSE found)

\* The errors are all kept.
RemoveNone(ErrorMessages, InFilter) == ErrorMessages

\* ErrorMessages.RemoveAll(FRemoveRedundantErrors(InFilter))
RemoveAll(ErrorMessages, InFilter) ==
    LET Kept(String) == ~Contains(String, InFilter)
    IN  SelectSeq(ErrorMessages, Kept)

RemoveRedundantErrorsResult(InCommand, InFilter) ==
    LET found == AddRedundantErrors(InCommand.ErrorMessages, 1, InFilter,
                    [ InfoMessages |-> InCommand.InfoMessages, bFoundRedundantError |-> FALSE ])
        ErrorMessages == RemoveAll(InCommand.ErrorMessages, InFilter)
    IN  [ ErrorMessages |-> ErrorMessages,
          InfoMessages |-> found.InfoMessages,
          bCommandSuccessful |->
              IF found.bFoundRedundantError /\ Len(ErrorMessages) = 0
                    /\ ~InCommand.bCommandSuccessful
              THEN TRUE ELSE InCommand.bCommandSuccessful ]

\* The most errors, and the most messages, of a command when it is given.
MaxErrors == 3
MaxInfos == 1

\* The lines of the messages and the filters.
Messages == { <<"a">>, <<"b">>, <<"a", "a">>, <<"a", "b">>, <<"b", "a">>, <<"b", "b">> }
Filters == { <<"a">>, <<"a", "b">> }

GitCommands ==
    [ ErrorMessages : UNION { [1..n -> Messages] : n \in 0..MaxErrors },
      InfoMessages : UNION { [1..n -> Messages] : n \in 0..MaxInfos },
      bCommandSuccessful : BOOLEAN ]

NoErrorsRun == [ ran |-> FALSE ]

RemoveRedundantErrors ==
    /\ errorsRun = NoErrorsRun
    /\ \E InCommand \in GitCommands, InFilter \in Filters :
        errorsRun' = [ ran |-> TRUE, before |-> InCommand, InFilter |-> InFilter,
                       InCommand |-> RemoveRedundantErrorsResult(InCommand, InFilter) ]
    /\ UNCHANGED exceptErrors

\* The caller has the command; the next call can be made.
ReturnFromErrors ==
    /\ errorsRun # NoErrorsRun
    /\ errorsRun' = NoErrorsRun
    /\ UNCHANGED exceptErrors

IdleErrors == errorsRun = NoErrorsRun

----------------------------------------------------------------------------
(* PullOrigin                                                               *)

\* FPaths::Combine(InRelativeTo, FileName), for each of the files.
AbsoluteFilenames(InFileNames, InRelativeTo) ==
    [ i \in DOMAIN InFileNames |-> ConvertRelativePathToFull(InRelativeTo, InFileNames[i]) ]

\* The files "diff --name-only" names.
DifferentFileLists == { <<>>, <<"a">>, <<"b">>, <<"a", "b">> }

\* The files of OutFiles: the different files that are not in InFiles.
PullOutFiles(AbsoluteDifferentFiles, AlreadyReloaded) ==
    LET NotReloaded(File) == File \notin AlreadyReloaded
    IN  IF AlreadyReloaded # {} THEN SelectSeq(AbsoluteDifferentFiles, NotReloaded)
        ELSE AbsoluteDifferentFiles

\* The files given to UnlinkPackages.
PullLockableFiles(types, OutFiles) ==
    LET Lockable(File) == IsFileLFSLockable(types, File)
    IN  SelectSeq(OutFiles, Lockable)

\* The work given to the main thread.
MainThreadWork == { "UnlinkPackages", "ReloadPackages" }

\* A future is taken as soon as it is asked for.
IsReadyAlways(task) == TRUE

\* TFuture::Get, TFuture::Wait: the caller goes on when the work is done.
IsReady(task) == task = "done"

\* What is remembered of a call: the commands it ran before the "pull"
\* (the lookup of the remote branch, the "diff"), what it found, and its
\* return value.
NoPull ==
    [ bShouldReload |-> FALSE, result |-> "none", AlreadyReloaded |-> {}, OutFiles |-> <<>>,
      Files |-> <<>>, commands |-> <<>> ]

\* The pull is never refused.
RefusesPullNever(pending) == FALSE

\* if (Provider.bPendingRestart) ... return false;
RefusesPull(pending) == pending

\* The return value of RunCommand("pull").
PullSucceeded(process) == process = "succeeded"

PullReturn(call, result) == [ call EXCEPT !.result = result ]

\* From the call to the "pull": the early returns, the different files, and
\* the unload of the lockable ones given to the main thread.
PullOrigin ==
    /\ pullPc = "idle"
    /\ \E remote \in BOOLEAN, bResultDiff \in BOOLEAN,
          InFiles \in SUBSET DiskFiles, DifferentFiles \in DifferentFileLists :
        LET OutFiles == PullOutFiles(AbsoluteFilenames(DifferentFiles, RepositoryRoot), InFiles)
            Files == PullLockableFiles(LockableTypes, OutFiles)
            bShouldReload == Len(Files) > 0
            ran == IF remote THEN <<"rev-parse", "diff">> ELSE <<"rev-parse">>
        IN  IF RefusesPull(bPendingRestart)
            THEN /\ pullPc' = "returned"
                 /\ pullCall' = PullReturn(NoPull, FALSE)
                 /\ UNCHANGED mainThreadTasks
            ELSE IF ~remote \/ ~bResultDiff
            THEN /\ pullPc' = "returned"
                 /\ pullCall' = PullReturn([ NoPull EXCEPT !.commands = ran ], FALSE)
                 /\ UNCHANGED mainThreadTasks
            ELSE IF Len(DifferentFiles) = 0
            THEN /\ pullPc' = "returned"
                 /\ pullCall' = PullReturn([ NoPull EXCEPT !.commands = ran ], TRUE)
                 /\ UNCHANGED mainThreadTasks
            ELSE /\ pullCall' = [ bShouldReload |-> bShouldReload, result |-> "none",
                                  AlreadyReloaded |-> InFiles, OutFiles |-> OutFiles,
                                  Files |-> Files, commands |-> ran ]
                 /\ IF bShouldReload
                    THEN /\ mainThreadTasks' = [ mainThreadTasks EXCEPT !["UnlinkPackages"] = "queued" ]
                         /\ pullPc' = "unlink"
                    ELSE /\ UNCHANGED mainThreadTasks
                         /\ pullPc' = "pull"
    /\ UNCHANGED <<pullProcess, exceptPull>>

\* PackagesToReloadResult.Get()
UnlinkPackagesGet ==
    /\ pullPc = "unlink"
    /\ IsReady(mainThreadTasks["UnlinkPackages"])
    /\ pullPc' = "pull"
    /\ UNCHANGED <<pullCall, mainThreadTasks, pullProcess, exceptPull>>

\* RunCommand("pull") starts the subprocess.
RunPull ==
    /\ pullPc = "pull"
    /\ pullProcess' = "running"
    /\ pullPc' = "pulling"
    /\ UNCHANGED <<pullCall, mainThreadTasks, exceptPull>>

\* The subprocess exits, with success or not.
PullExits ==
    /\ pullProcess = "running"
    /\ \E exit \in {"succeeded", "failed"} : pullProcess' = exit
    /\ UNCHANGED <<pullPc, pullCall, mainThreadTasks, exceptPull>>

\* RunCommand("pull") returns; the reload is given to the main thread.
PullReturns ==
    /\ pullPc = "pulling"
    /\ pullProcess \notin {"none", "running"}
    /\ IF pullCall.bShouldReload
       THEN /\ mainThreadTasks' = [ mainThreadTasks EXCEPT !["ReloadPackages"] = "queued" ]
            /\ pullPc' = "reload"
            /\ UNCHANGED pullCall
       ELSE /\ pullPc' = "returned"
            /\ pullCall' = PullReturn(pullCall, PullSucceeded(pullProcess))
            /\ UNCHANGED mainThreadTasks
    /\ UNCHANGED <<pullProcess, exceptPull>>

\* ReloadPackagesResult.Wait(), and the return.
ReloadPackagesWait ==
    /\ pullPc = "reload"
    /\ IsReady(mainThreadTasks["ReloadPackages"])
    /\ pullPc' = "returned"
    /\ pullCall' = PullReturn(pullCall, PullSucceeded(pullProcess))
    /\ UNCHANGED <<mainThreadTasks, pullProcess, exceptPull>>

\* The main thread takes the work it was given, one at a time.
MainThreadBegins ==
    /\ \A work \in MainThreadWork : mainThreadTasks[work] # "running"
    /\ \E work \in MainThreadWork :
        /\ mainThreadTasks[work] = "queued"
        /\ mainThreadTasks' = [ mainThreadTasks EXCEPT ![work] = "running" ]
    /\ UNCHANGED <<pullPc, pullCall, pullProcess, exceptPull>>

MainThreadEnds ==
    /\ \E work \in MainThreadWork :
        /\ mainThreadTasks[work] = "running"
        /\ mainThreadTasks' = [ mainThreadTasks EXCEPT ![work] = "done" ]
    /\ UNCHANGED <<pullPc, pullCall, pullProcess, exceptPull>>

NoWork == [ work \in MainThreadWork |-> "none" ]

\* The caller has the return value; the next call can be made. Work the main
\* thread has not done stays with it.
ReturnFromPull ==
    /\ pullPc = "returned"
    /\ pullPc' = "idle"
    /\ pullCall' = NoPull
    /\ pullProcess' = "none"
    /\ mainThreadTasks' = [ work \in MainThreadWork |->
                              IF mainThreadTasks[work] = "done" THEN "none"
                              ELSE mainThreadTasks[work] ]
    /\ UNCHANGED exceptPull

IdlePull ==
    /\ pullPc = "idle"
    /\ pullCall = NoPull
    /\ mainThreadTasks = NoWork
    /\ pullProcess = "none"


----------------------------------------------------------------------------
(* CheckRemote                                                              *)

\* The upstream of the current branch, and the status branches of the provider.
Upstream == "origin/feature"

StatusBranchNames == {"origin/main", "origin/dev"}

\* Provider.GetStatusBranchNames(): no branch, status branches in either
\* order, and the upstream among the status branches.
StatusBranchLists ==
    { <<>>, <<"origin/main">>, <<"origin/main", "origin/dev">>, <<"origin/dev", "origin/main">>,
      <<Upstream, "origin/main">>, <<"origin/main", Upstream>>,
      <<Upstream, "origin/main", "origin/dev">> }

\* The elements of an array.
Elements(array) == { array[i] : i \in DOMAIN array }

\* GetRemoteBranchName: it fails and leaves the name empty, or gives the upstream.
RemoteBranchNames ==
    { [ bResults |-> FALSE, OutBranchName |-> "" ],
      [ bResults |-> TRUE, OutBranchName |-> Upstream ] }

\* TSet<FString> BranchesToDiff{StatusBranches}, and Add(CurrentBranchName):
\* a set keeps the order of insertion, and an element once.
BranchesToDiff(StatusBranches, remote) ==
    IF remote.bResults /\ remote.OutBranchName \notin Elements(StatusBranches)
    THEN Append(StatusBranches, remote.OutBranchName)
    ELSE StatusBranches

\* The names a "log" or a "diff" prints: the files, one more asset, and a
\* file of the build.
RemoteNames == FileNames \cup {"c", ".checksum"}

\* Every name tells the caller to restart.
NeedsRestartAlways(NewerFileName) == TRUE

\* The names that tell the caller to restart.
NeedsRestart(NewerFileName) ==
    NewerFileName \in {".checksum", "Binaries/Editor.dll", "Plugins/Editor.dll"}

\* A path relative to the repository root.
RelativePath(name) == <<"", name>>

\* The "log" and the "diff" of one branch: what each returned and printed. A
\* command that fails may have printed names.
BranchOutputs ==
    { [ bResultLog |-> TRUE, LogResults |-> <<"a">>, bResultDiff |-> TRUE, DiffResults |-> <<"a">> ],
      [ bResultLog |-> TRUE, LogResults |-> <<"b", ".checksum">>,
        bResultDiff |-> TRUE, DiffResults |-> <<".checksum", "b">> ],
      [ bResultLog |-> TRUE, LogResults |-> <<"a", "c">>, bResultDiff |-> TRUE, DiffResults |-> <<"c">> ],
      [ bResultLog |-> TRUE, LogResults |-> <<"a", "c">>,
        bResultDiff |-> TRUE, DiffResults |-> <<"c", "a">> ],
      [ bResultLog |-> TRUE, LogResults |-> <<"a", "c">>, bResultDiff |-> TRUE, DiffResults |-> <<>> ],
      [ bResultLog |-> TRUE, LogResults |-> <<"a">>, bResultDiff |-> FALSE, DiffResults |-> <<"a">> ],
      [ bResultLog |-> TRUE, LogResults |-> <<>>, bResultDiff |-> TRUE, DiffResults |-> <<"a">> ],
      [ bResultLog |-> FALSE, LogResults |-> <<"a">>, bResultDiff |-> TRUE, DiffResults |-> <<"a">> ] }

\* The diff that filters nothing.
IntersectionOfLog(StatusBranches, output) == output.LogResults

\* The names of the branch to look at: the names of the diff that the log
\* has, when there are status branches, else the names of the log.
Intersection(StatusBranches, output) ==
    IF Len(StatusBranches) > 0
    THEN SelectSeq(output.DiffResults, LAMBDA Name : Name \in Elements(output.LogResults))
    ELSE output.LogResults

\* The branch that is kept whatever the file has.
OverridesAlways(bCurrentBranch, NewerFiles, NewerFilePath) == TRUE

\* The current branch overrides; another branch is kept for a file no branch
\* has yet.
Overrides(bCurrentBranch, NewerFiles, NewerFilePath) ==
    bCurrentBranch \/ NewerFilePath \notin DOMAIN NewerFiles

\* The body of the loop over the names of one branch.
AddNewerFile(found, NewerFileName, Branch, bCurrentBranch, types) ==
    IF ~IsFileLFSLockable(types, RelativePath(NewerFileName))
    THEN [ found EXCEPT !.bPendingRestart = @ \/ (bCurrentBranch /\ NeedsRestart(NewerFileName)) ]
    ELSE LET NewerFilePath == ConvertRelativePathToFull(RepositoryRoot, NewerFileName)
         IN  IF Overrides(bCurrentBranch, found.NewerFiles, NewerFilePath)
             THEN [ found EXCEPT !.NewerFiles = MapAdd(@, NewerFilePath, Branch) ]
             ELSE found

RECURSIVE AddNewerFiles(_, _, _, _, _)
AddNewerFiles(found, names, Branch, bCurrentBranch, types) ==
    IF names = <<>> THEN found
    ELSE AddNewerFiles(AddNewerFile(found, Head(names), Branch, bCurrentBranch, types),
                       Tail(names), Branch, bCurrentBranch, types)

\* The loop over the branches to diff, in the order of the set.
RECURSIVE DiffBranches(_, _, _, _, _, _)
DiffBranches(found, branches, StatusBranches, remote, outputs, types) ==
    IF branches = <<>> THEN found
    ELSE LET Branch == Head(branches)
             bCurrentBranch == remote.bResults /\ Branch = remote.OutBranchName
             names == Intersection(StatusBranches, outputs[Branch])
         IN  DiffBranches(
                 IF outputs[Branch].bResultLog
                 THEN AddNewerFiles([ found EXCEPT !.Intersections = MapAdd(@, Branch, names) ],
                                    names, Branch, bCurrentBranch, types)
                 ELSE found,
                 Tail(branches), StatusBranches, remote, outputs, types)

\* The loop over the newer files: the states of the files the caller has.
NewerStates(InStates, NewerFiles, CurrentBranchName) ==
    [ path \in DOMAIN InStates |->
        IF path \in DOMAIN NewerFiles
        THEN [ InStates[path] EXCEPT
                 !.RemoteState = IF NewerFiles[path] = CurrentBranchName
                                 THEN "NotAtHead" ELSE "NotLatest",
                 !.HeadBranch = NewerFiles[path] ]
        ELSE InStates[path] ]

\* The states the caller gives: none, or one of each file a branch can name.
RemoteStateMaps ==
    { EmptyMap,
      [ path \in { ConvertRelativePathToFull(RepositoryRoot, name) : name \in RemoteNames }
          |-> DefaultState ] }

NoRemote ==
    [ ran |-> FALSE, module |-> FALSE, StatusBranches |-> <<>>, bResults |-> FALSE,
      CurrentBranchName |-> "", outputs |-> EmptyMap, types |-> {}, InStates |-> EmptyMap,
      BranchesToDiff |-> <<>>, Intersections |-> EmptyMap, NewerFiles |-> EmptyMap,
      OutStates |-> EmptyMap, bPendingRestart |-> FALSE, compared |-> FALSE ]

\* CheckRemote, with the states of the caller.
CheckRemote ==
    /\ remoteRun = NoRemote
    /\ \E module \in BOOLEAN, StatusBranches \in StatusBranchLists, remote \in RemoteBranchNames,
          InStates \in RemoteStateMaps :
        LET branches == BranchesToDiff(StatusBranches, remote)
        IN  \E outputs \in [Elements(branches) -> BranchOutputs] :
              LET compared == module /\ Len(branches) > 0
                  found == IF compared
                           THEN DiffBranches([ NewerFiles |-> EmptyMap, Intersections |-> EmptyMap,
                                               bPendingRestart |-> bPendingRestart ],
                                             branches, StatusBranches, remote, outputs,
                                             LockableTypes)
                           ELSE [ NewerFiles |-> EmptyMap, Intersections |-> EmptyMap,
                                  bPendingRestart |-> bPendingRestart ]
              IN  /\ bPendingRestart' = found.bPendingRestart
                  /\ remoteRun' =
                        [ ran |-> TRUE, module |-> module, StatusBranches |-> StatusBranches,
                          bResults |-> remote.bResults,
                          CurrentBranchName |-> remote.OutBranchName,
                          outputs |-> outputs, types |-> LockableTypes, InStates |-> InStates,
                          BranchesToDiff |-> branches, Intersections |-> found.Intersections,
                          NewerFiles |-> found.NewerFiles,
                          OutStates |-> NewerStates(InStates, found.NewerFiles,
                                                    remote.OutBranchName),
                          bPendingRestart |-> bPendingRestart, compared |-> compared ]
    /\ UNCHANGED exceptRemote

\* The caller has the states; the next call can be made.
ReturnFromRemote ==
    /\ remoteRun.ran
    /\ remoteRun' = NoRemote
    /\ UNCHANGED <<bPendingRestart, exceptRemote>>

IdleRemote ==
    /\ remoteRun = NoRemote
    /\ bPendingRestart = FALSE


----------------------------------------------------------------------------
(* The specifications.                                                      *)

\* The state after construction.
Init == IdleLocks /\ IdleParser /\ IdleStatus /\ IdleCache /\ IdleCommand /\ IdleHistory
    /\ IdleErrors /\ IdlePull /\ IdleRemote
    /\ IdleLocksParser

\* The refresh over time.
NextLocks == GetAllLocks \/ Tick

SpecLocks == Init /\ [][NextLocks]_vars

\* The refresh and its outputs, at one instant.
NextLockData == GetAllLocksAnyOutput

SpecLockData == Init /\ [][NextLockData]_vars

\* The edits of the lock cache, under any identity.
NextLockEdit == AddLockedFile \/ RemoveLockedFile \/ GetUserConfig

SpecLockEdit == Init /\ [][NextLockEdit]_vars

\* The refresh and the edits of the lock cache, under one identity.
NextLockSync == GetAllLocksBetweenEdits \/ AddLockedFile \/ RemoveLockedFile

SpecLockSync == Init /\ [][NextLockSync]_vars

\* The parser of a lock line, under any identity.
NextLocksParser == ParseLockLine \/ GetUserConfig

SpecLocksParser == Init /\ [][NextLocksParser]_vars

\* The status line parser on every status code.
NextParser == ParseStatusLine

SpecParser == Init /\ [][NextParser]_vars

\* The aggregation pass.
NextStatus == CheckLFSLockable \/ ParseFileStatusResult \/ DiscardStates

SpecStatus == Init /\ [][NextStatus]_vars

\* The merge into the cache of states.
NextCache == UpdateCachedStates \/ ReturnFromUpdate \/ RemoveFileFromIgnoreForceCache

SpecCache == Init /\ [][NextCache]_vars

\* The commands run by batches.
NextCommand == RunCommand \/ RunCommit \/ ReturnFromCommand

SpecCommand == Init /\ [][NextCommand]_vars

\* The history of a file.
NextHistory == RunGetHistory \/ ReturnFromHistory

SpecHistory == Init /\ [][NextHistory]_vars

\* The errors of a command.
NextErrors == RemoveRedundantErrors \/ ReturnFromErrors

SpecErrors == Init /\ [][NextErrors]_vars

\* The pull, the main thread, and the lockable types the pull reads.
NextPull ==
    \/ CheckLFSLockable
    \/ PullOrigin \/ UnlinkPackagesGet \/ RunPull \/ PullExits \/ PullReturns
    \/ ReloadPackagesWait \/ ReturnFromPull
    \/ MainThreadBegins \/ MainThreadEnds

SpecPull == Init /\ [][NextPull]_vars

\* The remote divergence check and the pull, one call at a time: each
\* runs to its return before the next is made.
NextRestart ==
    \/ pullPc = "idle" /\ CheckRemote
    \/ pullPc = "idle" /\ ReturnFromRemote
    \/ remoteRun = NoRemote /\ CheckLFSLockable
    \/ remoteRun = NoRemote /\ PullOrigin
    \/ remoteRun = NoRemote /\ UnlinkPackagesGet
    \/ remoteRun = NoRemote /\ RunPull
    \/ remoteRun = NoRemote /\ PullExits
    \/ remoteRun = NoRemote /\ PullReturns
    \/ remoteRun = NoRemote /\ ReloadPackagesWait
    \/ remoteRun = NoRemote /\ ReturnFromPull
    \/ remoteRun = NoRemote /\ MainThreadBegins
    \/ remoteRun = NoRemote /\ MainThreadEnds

SpecRestart == Init /\ [][NextRestart]_vars

\* The remote divergence check, and the lockable types it reads.
NextRemote == CheckLFSLockable \/ CheckRemote \/ ReturnFromRemote

SpecRemote == Init /\ [][NextRemote]_vars

\* Every operation.
Next ==
    \/ NextLocks \/ NextLockData \/ NextLockEdit \/ NextParser \/ NextStatus \/ NextCache \/ NextCommand
    \/ NextHistory \/ NextErrors \/ NextPull \/ NextRemote
    \/ NextLocksParser \/ NextLockSync \/ NextRestart

Spec == Init /\ [][Next]_vars

----------------------------------------------------------------------------
(* Claims about the lock cache refresh.                                     *)

\* Two refreshes were made, the last one after the one before.
TwoCalls == lockCall.remote # "never" /\ prevLockCall.remote # "never"

\* The time between the two last refreshes.
CallGap == lockCall.time - prevLockCall.time

\* Whether a call issued the remote lock query.
AskedRemote(remote) == IF remote \in {"ok", "fail"} THEN 1 ELSE 0

----------------------------------------------------------------------------
(* Claims about the status line parser and the aggregation pass.            *)

\* A pass has run to its end: the module was loaded.
PassRan == statusPass.ran /\ statusPass.in.module

\* The explicit files of the pass that have a line of status.
FoundFiles == statusPass.in.InFiles \cap DOMAIN statusPass.in.InResults

\* The explicit files of the pass that have no line of status.
AbsentFiles == statusPass.in.InFiles \ DOMAIN statusPass.in.InResults

\* The line has index 'M' and worktree ' '.
IsStagedModification(line) == line[1] = "M" /\ line[2] = " "

\* The entry of an explicit file carries the parser object of its line.
CarriesParser(File) ==
    /\ File \in DOMAIN OutStates
    /\ OutStates[File].FileState = statusPass.in.parse[File].FileState
    /\ OutStates[File].TreeState = statusPass.in.parse[File].TreeState

\* C4 as stated: an explicit path present in the status map receives the
\* parser's classification of its line, and a line with index 'M' and
\* worktree ' ' gives FileState Modified, TreeState Working.
C4_AsStated ==
    PassRan =>
        \A File \in FoundFiles :
            /\ CarriesParser(File)
            /\ IsStagedModification(statusPass.in.InResults[File])
                  => /\ OutStates[File].FileState = "Modified"
                     /\ OutStates[File].TreeState = "Working"

\* C4 amended: an explicit path present in the status map receives the
\* parser's classification of its line, and a line with index 'M' and
\* worktree ' ' gives FileState Modified, TreeState Staged.
C4_ExplicitClassified ==
    PassRan =>
        \A File \in FoundFiles :
            /\ CarriesParser(File)
            /\ IsStagedModification(statusPass.in.InResults[File])
                  => /\ OutStates[File].FileState = "Modified"
                     /\ OutStates[File].TreeState = "Staged"

\* A pass over a and b with the line "M  a" and no line for b.
C4_Witness ==
    /\ PassRan
    /\ statusPass.in.InFiles = StatusPaths
    /\ \E File \in FoundFiles :
          /\ AbsentFiles # {}
          /\ statusPass.in.InResults[File] = StatusLineOf(<<"M", " ">>, "a")
          /\ OutStates[File].FileState = "Modified"
          /\ OutStates[File].TreeState = "Staged"

\* C5: every explicit path absent from the status map is classified
\* FileState Unknown, with TreeState Unmodified when the file exists on
\* disk and NotInRepo when it does not.
C5_AbsentClassified ==
    PassRan =>
        \A File \in AbsentFiles :
            /\ File \in DOMAIN OutStates
            /\ OutStates[File].FileState = "Unknown"
            /\ (File \in statusPass.in.exists) => OutStates[File].TreeState = "Unmodified"
            /\ (File \notin statusPass.in.exists) => OutStates[File].TreeState = "NotInRepo"

\* A pass over two files without a line, one on disk and one not.
C5_Witness ==
    /\ PassRan
    /\ \E File \in AbsentFiles, Other \in AbsentFiles :
          /\ File \in statusPass.in.exists
          /\ Other \notin statusPass.in.exists
          /\ OutStates[File].TreeState = "Unmodified"
          /\ OutStates[Other].TreeState = "NotInRepo"

\* The characters of the parsed line are those of a conflict.
ConflictChars ==
    \/ statusLine[1] = "U" \/ statusLine[2] = "U"
    \/ (statusLine[1] = "A" /\ statusLine[2] = "A")
    \/ (statusLine[1] = "D" /\ statusLine[2] = "D")

\* C6: a line whose index or worktree char is 'U', or whose two chars are
\* both 'A' or both 'D', is parsed as FileState Unmerged, TreeState
\* Working, before any other rule ('AA' is never Added, 'DD' never Deleted).
C6_ConflictFirst ==
    (statusLine # NoLine /\ ConflictChars)
        => parsed = [FileState |-> "Unmerged", TreeState |-> "Working"]

\* The line "AA" was parsed as a conflict.
C6_Witness ==
    /\ statusLine # NoLine
    /\ statusLine[1] = "A" /\ statusLine[2] = "A"
    /\ parsed.FileState = "Unmerged" /\ parsed.TreeState = "Working"

----------------------------------------------------------------------------
(* Claims about the outputs of the refresh                                  *)

\* A map as its set of (path, owner) pairs.
PairsOf(map) == { <<path, map[path]>> : path \in DOMAIN map }

\* The (path, owner) pairs parsed from the lines of a query.
ParsedLocks(lines, identity) ==
    { <<FGitLfsLocksParser(lines[i], identity).LocalFilename,
        FGitLfsLocksParser(lines[i], identity).LockUser>> : i \in DOMAIN lines }

\* The pairs of a map whose path is not a path of the given pairs.
PairsBeside(map, pairs) ==
    { pair \in PairsOf(map) : \A other \in pairs : other[1] # pair[1] }

\* C12 as stated: after a refresh whose remote query succeeds the cache is
\* exactly the pairs parsed from the output of the query, whatever the cache
\* and the caller's map held, and LastUpdated is the time of the call.
C12_AsStated ==
    lockCall.remote = "ok" =>
        /\ PairsOf(LockedFiles) = ParsedLocks(lockCall.q.remoteRes, LockUser)
        /\ LastUpdated = lockCall.time

\* C12: after a refresh whose remote query succeeds the cache is the pairs
\* parsed from the output of the query together with the pairs the caller's
\* map held for other paths, whatever the cache held, and LastUpdated is the
\* time of the call.
C12_RemoteReplaces ==
    lockCall.remote = "ok" =>
        LET parsedLocks == ParsedLocks(lockCall.q.remoteRes, LockUser)
        IN  /\ PairsOf(LockedFiles) = parsedLocks \cup PairsBeside(lockCall.q.inLocks, parsedLocks)
            /\ LastUpdated = lockCall.time

\* A remote query has succeeded for a caller whose map held a lock the
\* query does not name: the lock is in the cache.
C12_Witness ==
    /\ lockCall.remote = "ok"
    /\ lockCall.q.remoteRes # <<>>
    /\ lockCall.q.inLocks # EmptyMap
    /\ PairsOf(LockedFiles) # ParsedLocks(lockCall.q.remoteRes, LockUser)
    /\ LastUpdated = lockCall.time

\* The pairs of the "--local" output a fallback keeps, and those of the
\* "--cached" output.
OwnLocal(q, identity) ==
    { pair \in ParsedLocks(q.localRes, identity) : pair[2] = identity }

OthersCached(q, identity) ==
    { pair \in ParsedLocks(q.cachedRes, identity) : pair[2] # identity }

\* C13: when the remote query fails and both fallback queries succeed, the
\* output for an empty map is made of the pairs of the "--cached" output
\* whose owner is not the identity and of the pairs of the "--local" output
\* whose owner is the identity, and of nothing else; where both name a path
\* the "--local" pair is the one kept.
C13_FallbackFilter ==
    (lockCall.remote = "fail" /\ lockCall.fallback = "ok" /\ lockCall.q.inLocks = EmptyMap) =>
        LET own == OwnLocal(lockCall.q, LockUser)
            others == OthersCached(lockCall.q, LockUser)
        IN  /\ PairsOf(lockCall.out) \subseteq own \cup others
            /\ own \subseteq PairsOf(lockCall.out)
            /\ \A pair \in others :
                    pair \in PairsOf(lockCall.out) \/ \E mine \in own : mine[1] = pair[1]

\* The fallback has answered with a lock of another user in "--cached", and
\* with one of the identity and one of another user in "--local".
C13_Witness ==
    /\ lockCall.remote = "fail" /\ lockCall.fallback = "ok" /\ lockCall.q.inLocks = EmptyMap
    /\ OthersCached(lockCall.q, LockUser) # {}
    /\ OwnLocal(lockCall.q, LockUser) # {}
    /\ OthersCached(lockCall.q, LockUser) # ParsedLocks(lockCall.q.cachedRes, LockUser)
    /\ OwnLocal(lockCall.q, LockUser) # ParsedLocks(lockCall.q.localRes, LockUser)
    /\ PairsOf(lockCall.out) = OwnLocal(lockCall.q, LockUser) \cup OthersCached(lockCall.q, LockUser)

----------------------------------------------------------------------------
(* Claims about the edits of the lock cache                                 *)

\* The attributes of the files other than the one of the last edit are as
\* the edit found them.
OthersUntouched ==
    \A f \in DiskFiles \ {lockEdit.filePath} : readOnly[f] = lockEdit.readOnly[f]

\* The attribute of the file of the last edit is as the edit found it.
Untouched == readOnly[lockEdit.filePath] = lockEdit.readOnly[lockEdit.filePath]

\* C11 as stated: AddLockedFile caches path -> user and makes the file
\* writable if and only if user is the current identity; RemoveLockedFile
\* removes the entry and makes the file read-only if and only if the owner of
\* the removed entry is the current identity; in every other case, the removal
\* of a path that is not cached included, the attribute is untouched.
C11_AsStated ==
    /\ lockEdit.op = "AddLockedFile" =>
        /\ lockEdit.filePath \in DOMAIN LockedFiles
        /\ LockedFiles[lockEdit.filePath] = lockEdit.lockUser
        /\ OthersUntouched
        /\ IF lockEdit.lockUser = lockEdit.identity
           THEN readOnly[lockEdit.filePath] = FALSE
           ELSE Untouched
    /\ lockEdit.op = "RemoveLockedFile" =>
        /\ lockEdit.filePath \notin DOMAIN LockedFiles
        /\ OthersUntouched
        /\ IF lockEdit.cached /\ lockEdit.user = lockEdit.identity
           THEN readOnly[lockEdit.filePath] = TRUE
           ELSE Untouched

\* C11: the same, except that RemoveLockedFile of a path that is not cached
\* compares the empty owner with the identity, and so makes the file
\* read-only when the identity is empty.
C11_LockEdits ==
    /\ lockEdit.op = "AddLockedFile" =>
        /\ lockEdit.filePath \in DOMAIN LockedFiles
        /\ LockedFiles[lockEdit.filePath] = lockEdit.lockUser
        /\ OthersUntouched
        /\ IF lockEdit.lockUser = lockEdit.identity
           THEN readOnly[lockEdit.filePath] = FALSE
           ELSE Untouched
    /\ lockEdit.op = "RemoveLockedFile" =>
        /\ lockEdit.filePath \notin DOMAIN LockedFiles
        /\ OthersUntouched
        /\ IF (lockEdit.cached /\ lockEdit.user = lockEdit.identity)
                \/ (~lockEdit.cached /\ lockEdit.identity = "")
           THEN readOnly[lockEdit.filePath] = TRUE
           ELSE Untouched

\* A path that is not cached has been removed under an empty identity, and
\* its file, writable before, is read-only.
C11_Witness ==
    /\ lockEdit.op = "RemoveLockedFile"
    /\ ~lockEdit.cached
    /\ lockEdit.identity = ""
    /\ lockEdit.readOnly[lockEdit.filePath] = FALSE
    /\ readOnly[lockEdit.filePath] = TRUE

----------------------------------------------------------------------------
(* Claims about the merge into the cache of states                          *)

\* The last call of UpdateCachedStates went through its loop.
MergeRan == merge.ran /\ merge.result

\* The cached state the last call found for the file.
StateBefore(path) == GetStateInternal(merge.before, path)

\* C3: UpdateCachedStates never changes the FileState of a cached entry to
\* Added when the entry it finds is neither Unknown nor eligible to be added;
\* a fragment that proposes Added for such an entry cached as Modified leaves
\* its FileState Modified.
C3_MergeGuard ==
    MergeRan =>
        \A path \in DOMAIN merge.InResults :
            (~IsUnknown(StateBefore(path)) /\ ~CanAdd(StateBefore(path))) =>
                /\ StateCache[path].FileState = "Added" => StateBefore(path).FileState = "Added"
                /\ (merge.InResults[path].FileState = "Added"
                        /\ StateBefore(path).FileState = "Modified")
                    => StateCache[path].FileState = "Modified"

\* A fragment proposing Added has been merged for a file cached as Modified
\* and not eligible to be added.
C3_Witness ==
    /\ MergeRan
    /\ \E path \in DOMAIN merge.InResults :
        /\ merge.InResults[path].FileState = "Added"
        /\ path \in DOMAIN merge.before
        /\ merge.before[path].FileState = "Modified"
        /\ ~CanAdd(merge.before[path])
        /\ StateCache[path].FileState = "Modified"

----------------------------------------------------------------------------
(* Claims about the commands run by batches                                 *)

\* ceil(n / MaxFilesPerBatch)
BatchCount(n) == (n + MaxFilesPerBatch - 1) \div MaxFilesPerBatch

\* The file lists of the subprocesses, one after the other.
RECURSIVE Concatenation(_)
Concatenation(commands) ==
    IF commands = <<>> THEN <<>>
    ELSE Head(commands).InFiles \o Concatenation(Tail(commands))

IsCommit(command) == command.InCommand = "commit"

\* The last call was given more files than a batch holds.
SplitCall(op) == commandRun.op = op /\ Len(commandRun.InFiles) > MaxFilesPerBatch

\* C7: for n > 50 files RunCommand starts ceil(n/50) subprocesses, each given
\* at most 50 files, their file lists being the input list cut in order;
\* RunCommit starts, for each of the ceil(n/50) batches, an add and then a
\* commit of that batch, the first commit with the caller's parameters and
\* every later one with --amend appended.
C7_Batches ==
    /\ SplitCall("RunCommand") =>
        /\ Len(commandRun.commands) = BatchCount(Len(commandRun.InFiles))
        /\ \A i \in DOMAIN commandRun.commands :
            Len(commandRun.commands[i].InFiles) \in 1..MaxFilesPerBatch
        /\ Concatenation(commandRun.commands) = commandRun.InFiles
    /\ SplitCall("RunCommit") =>
        /\ Len(commandRun.commands) = 2 * BatchCount(Len(commandRun.InFiles))
        /\ \A i \in DOMAIN commandRun.commands :
            LET command == commandRun.commands[i]
            IN  /\ Len(command.InFiles) \in 1..MaxFilesPerBatch
                /\ i % 2 = 1 => command.InCommand = "add"
                /\ i % 2 = 0 =>
                    /\ command.InCommand = "commit"
                    /\ command.InFiles = commandRun.commands[i - 1].InFiles
                    /\ command.InParameters =
                        IF i = 2 THEN commandRun.InParameters
                        ELSE Append(commandRun.InParameters, "--amend")
        /\ Concatenation(SelectSeq(commandRun.commands, IsCommit)) = commandRun.InFiles

\* RunCommit has been given 120 files and has started an add and a commit
\* for 50, 50 and 20 of them, the second and third commits with --amend.
C7_Witness ==
    /\ SplitCall("RunCommit")
    /\ Len(commandRun.InFiles) = 120
    /\ Len(commandRun.commands) = 6
    /\ Len(commandRun.commands[2].InFiles) = 50
    /\ Len(commandRun.commands[4].InFiles) = 50
    /\ Len(commandRun.commands[6].InFiles) = 20
    /\ commandRun.commands[6].InParameters = Append(commandRun.InParameters, "--amend")

----------------------------------------------------------------------------
(* Claims about the history                                                 *)

IsCommitLine(Result) == Result[1] = "commit "

\* The number of commit records of the log.
CommitRecords(InResults) == Len(SelectSeq(InResults, IsCommitLine))

\* The log of the last call was parsed.
HistoryParsed == historyRun.ran /\ historyRun.logOk

\* C8: a log of N commit records gives N revisions, in the order of the log,
\* numbered N, N-1, ..., 1; a revision points to a source exactly when its
\* action is "branch" and it is not the last of the history, and the source
\* is then the revision that follows it.
C8_HistoryOrdinals ==
    HistoryParsed =>
        LET OutHistory == historyRun.OutHistory
            N == CommitRecords(historyRun.InResults)
        IN  /\ Len(OutHistory) = N
            /\ \A i \in 1..N :
                /\ OutHistory[i].CommitId = SelectSeq(historyRun.InResults, IsCommitLine)[i][2]
                /\ OutHistory[i].RevisionNumber = N - i + 1
                /\ OutHistory[i].BranchSource # 0 <=> (OutHistory[i].Action = "branch" /\ i < N)
                /\ OutHistory[i].BranchSource # 0 => OutHistory[i].BranchSource = i + 1

\* The log of two commits, the rename of x.txt to y.txt and before it the add
\* of x.txt, has been parsed: revision 2 points to revision 1.
C8_Witness ==
    /\ HistoryParsed
    /\ historyRun.InResults =
        << <<"commit ", "c2">>, <<"R", "x.txt", "y.txt">>, <<"commit ", "c1">>, <<"A", "x.txt">> >>
    /\ Len(historyRun.OutHistory) = 2
    /\ historyRun.OutHistory[1].RevisionNumber = 2
    /\ historyRun.OutHistory[2].RevisionNumber = 1
    /\ historyRun.OutHistory[historyRun.OutHistory[1].BranchSource].RevisionNumber = 1

----------------------------------------------------------------------------
(* Claims about the errors of a command                                     *)

\* The errors the last call was given that have its filter, and the others.
WithFilter(ErrorMessages, InFilter) ==
    LET Has(String) == Contains(String, InFilter) IN SelectSeq(ErrorMessages, Has)

WithoutFilter(ErrorMessages, InFilter) ==
    LET HasNot(String) == ~Contains(String, InFilter) IN SelectSeq(ErrorMessages, HasNot)

\* C9: RemoveRedundantErrors appends the errors that contain the filter to
\* the messages, in their order, and removes them from the errors; the other
\* errors and the messages it was given stay as they were. The command becomes
\* successful when an error was moved and no error remains; its success is
\* otherwise unchanged, and a successful command stays successful.
C9_RedundantErrors ==
    errorsRun.ran =>
        LET before == errorsRun.before
            after == errorsRun.InCommand
            moved == WithFilter(before.ErrorMessages, errorsRun.InFilter)
        IN  /\ after.InfoMessages = before.InfoMessages \o moved
            /\ after.ErrorMessages = WithoutFilter(before.ErrorMessages, errorsRun.InFilter)
            /\ after.bCommandSuccessful =
                IF moved # <<>> /\ after.ErrorMessages = <<>> THEN TRUE
                ELSE before.bCommandSuccessful
            /\ before.bCommandSuccessful => after.bCommandSuccessful

\* A failed command whose errors all have the filter has become successful,
\* and a failed command with another error has stayed failed.
C9_Witness ==
    /\ errorsRun.ran
    /\ ~errorsRun.before.bCommandSuccessful
    /\ Len(errorsRun.before.ErrorMessages) = 2
    /\ errorsRun.before.InfoMessages # <<>>
    /\ Len(errorsRun.InCommand.InfoMessages) = 3
    /\ errorsRun.InCommand.ErrorMessages = <<>>
    /\ errorsRun.InCommand.bCommandSuccessful

----------------------------------------------------------------------------
(* Claims about the pull                                                    *)

\* C10: when PullOrigin has a lockable file to update, the "pull" subprocess
\* is started only when the main thread has done the unload, the reload is
\* given to the main thread only when the subprocess has exited, with success
\* or not, and PullOrigin returns only when the main thread has done the
\* reload.
C10_PullOrder ==
    pullCall.bShouldReload =>
        /\ pullProcess # "none" => mainThreadTasks["UnlinkPackages"] = "done"
        /\ mainThreadTasks["ReloadPackages"] # "none" => pullProcess \notin {"none", "running"}
        /\ pullPc = "returned" => mainThreadTasks["ReloadPackages"] = "done"

\* PullOrigin has returned the failure of a pull of a lockable file, the
\* unload and the reload done.
C10_Witness ==
    /\ pullCall.bShouldReload
    /\ pullPc = "returned"
    /\ pullProcess = "failed"
    /\ pullCall.result = FALSE
    /\ mainThreadTasks["UnlinkPackages"] = "done"
    /\ mainThreadTasks["ReloadPackages"] = "done"

----------------------------------------------------------------------------
(* Claims about the remote divergence check.                                *)

\* A check was made, and it compared branches.
RemoteCompared == remoteRun.ran /\ remoteRun.compared

\* The names a branch reports as diverged: none when its log fails; the
\* names its log and its diff both have when there are status branches; else
\* the names of its log.
Reported(Branch) ==
    LET output == remoteRun.outputs[Branch]
    IN  IF ~output.bResultLog THEN {}
        ELSE IF Len(remoteRun.StatusBranches) > 0
        THEN Elements(output.LogResults) \cap Elements(output.DiffResults)
        ELSE Elements(output.LogResults)

\* The branch reports the path, and the path is lockable.
Reports(Branch, path) ==
    \E name \in Reported(Branch) :
        /\ path = ConvertRelativePathToFull(RepositoryRoot, name)
        /\ IsFileLFSLockable(remoteRun.types, RelativePath(name))

\* The upstream of the current branch reports the path.
UpstreamReports(path) ==
    remoteRun.bResults /\ Reports(remoteRun.CurrentBranchName, path)

\* The places, in the order of the check, of the other branches that report
\* the path.
OtherReporters(path) ==
    { i \in DOMAIN remoteRun.BranchesToDiff :
        /\ ~(remoteRun.bResults /\ remoteRun.BranchesToDiff[i] = remoteRun.CurrentBranchName)
        /\ Reports(remoteRun.BranchesToDiff[i], path) }

FirstReporter(path) ==
    remoteRun.BranchesToDiff[CHOOSE i \in OtherReporters(path) :
                                 \A j \in OtherReporters(path) : i <= j]

\* C14: after a remote divergence check, a lockable path the caller has a
\* state of, that the upstream of the current branch reports, is NotAtHead
\* with the upstream as its head branch, whatever the other branches report
\* and wherever the upstream is in the order; a path only other branches
\* report is NotLatest with the first of them, in the order of the check, as
\* its head branch.
C14_RemoteStates ==
    RemoteCompared =>
        \A path \in DOMAIN remoteRun.OutStates :
            LET state == remoteRun.OutStates[path]
            IN  /\ UpstreamReports(path) =>
                     /\ state.RemoteState = "NotAtHead"
                     /\ state.HeadBranch = remoteRun.CurrentBranchName
                /\ (~UpstreamReports(path) /\ OtherReporters(path) # {}) =>
                     /\ state.RemoteState = "NotLatest"
                     /\ state.HeadBranch = FirstReporter(path)

\* The upstream is the first to be compared and reports a path that a later
\* branch reports too; another path is reported by two other branches only.
C14_Witness ==
    /\ RemoteCompared
    /\ remoteRun.bResults
    /\ remoteRun.BranchesToDiff[1] = remoteRun.CurrentBranchName
    /\ \E path \in DOMAIN remoteRun.OutStates :
          /\ UpstreamReports(path)
          /\ OtherReporters(path) # {}
          /\ remoteRun.OutStates[path].RemoteState = "NotAtHead"
    /\ \E path \in DOMAIN remoteRun.OutStates :
          /\ ~UpstreamReports(path)
          /\ Cardinality(OtherReporters(path)) >= 2
          /\ remoteRun.OutStates[path].HeadBranch = FirstReporter(path)

\* The branches of the check whose log succeeded.
LoggedBranches ==
    { Branch \in Elements(remoteRun.BranchesToDiff) : remoteRun.outputs[Branch].bResultLog }

\* The names the check looked at for the branch.
Diverged(Branch) == Elements(remoteRun.Intersections[Branch])

\* The names both the log and the diff of the branch printed.
InLogAndDiff(Branch) ==
    Elements(remoteRun.outputs[Branch].LogResults)
        \cap Elements(remoteRun.outputs[Branch].DiffResults)

\* C20 as stated: for each compared branch whose log succeeds, the diverged
\* names are the names in both the log and the diff when there are status
\* branches, and none when the diff prints nothing or fails; they are the
\* names of the log when there is no status branch.
C20_AsStated ==
    RemoteCompared =>
        \A Branch \in LoggedBranches :
            /\ Branch \in DOMAIN remoteRun.Intersections
            /\ IF Len(remoteRun.StatusBranches) > 0
               THEN /\ Diverged(Branch) = InLogAndDiff(Branch)
                    /\ (\/ remoteRun.outputs[Branch].DiffResults = <<>>
                        \/ ~remoteRun.outputs[Branch].bResultDiff) => Diverged(Branch) = {}
               ELSE Diverged(Branch) = Elements(remoteRun.outputs[Branch].LogResults)

\* C20: for each compared branch whose log succeeds, the diverged names are
\* the names both the log and the diff printed when there are status
\* branches, whether the diff succeeded or not, and so none when the diff
\* printed nothing; they are the names of the log when there is no status
\* branch.
C20_Intersection ==
    RemoteCompared =>
        \A Branch \in LoggedBranches :
            /\ Branch \in DOMAIN remoteRun.Intersections
            /\ IF Len(remoteRun.StatusBranches) > 0
               THEN /\ Diverged(Branch) = InLogAndDiff(Branch)
                    /\ remoteRun.outputs[Branch].DiffResults = <<>> => Diverged(Branch) = {}
               ELSE Diverged(Branch) = Elements(remoteRun.outputs[Branch].LogResults)

\* With status branches: the diff of one branch failed after it printed a
\* name of the log, and the diff of another leaves out a name of its log.
C20_Witness ==
    /\ RemoteCompared
    /\ Len(remoteRun.StatusBranches) > 0
    /\ \E Branch \in LoggedBranches :
          /\ ~remoteRun.outputs[Branch].bResultDiff
          /\ Diverged(Branch) # {}
    /\ \E Branch \in LoggedBranches :
          /\ Diverged(Branch) # {}
          /\ Diverged(Branch) # Elements(remoteRun.outputs[Branch].LogResults)

----------------------------------------------------------------------------
(* Claims about the parser of a lock line.                                  *)

\* A line was given to the parser.
LockLineParsed == lockLine # NoLockLine

\* The line has the shape path[TAB user][TAB ID:n]: the field after the path,
\* when it is not the ID, is the user, and the field after the user is the ID.
HasIdField == IsIdField(lockLine.InStatus[Len(lockLine.InStatus)])

HasUserField == Len(lockLine.InStatus) >= 2 /\ ~IsIdField(lockLine.InStatus[2])

IsLockLineShape ==
    /\ LockLineParsed
    /\ Len(lockLine.InStatus) = 3 => (HasUserField /\ HasIdField)

\* The user of the line; a blank user is an empty one.
UserField == IF HasUserField /\ lockLine.InStatus[2] # Blank THEN lockLine.InStatus[2] ELSE ""

PathField == ConvertRelativePathToFull(RepositoryRoot, lockLine.InStatus[1])

\* C15 as stated: for a line path[TAB user][TAB ID:n] the parsed path is
\* the path of the line, and the parsed owner is the user of the line when
\* it has one, with or without the ID, and the current identity when the
\* user is absent or empty.
C15_AsStated ==
    IsLockLineShape =>
        /\ locksParser.LocalFilename = PathField
        /\ locksParser.LockUser = IF UserField # "" THEN UserField ELSE lockLine.user

\* C15: for a line path[TAB user][TAB ID:n] with a field that is not empty
\* after the path, the parsed path is the path of the line, and the parsed
\* owner is the user of the line when it is not empty and the ID follows it,
\* and the current identity otherwise, also for a user the ID does not
\* follow; a line with nothing after the path but empty fields leaves the
\* path and the owner empty.
C15_LockLine ==
    IsLockLineShape =>
        IF \E i \in 2..Len(lockLine.InStatus) : lockLine.InStatus[i] # ""
        THEN /\ locksParser.LocalFilename = PathField
             /\ locksParser.LockUser = IF UserField # "" /\ Len(lockLine.InStatus) = 3
                                       THEN UserField ELSE lockLine.user
        ELSE locksParser = NoLockFile

\* A line with a user and its ID, parsed to the user, who is not the
\* current identity.
C15_Witness ==
    /\ IsLockLineShape
    /\ Len(lockLine.InStatus) = 3
    /\ UserField = OtherUser
    /\ lockLine.user # OtherUser
    /\ locksParser.LockUser = OtherUser
    /\ locksParser.LocalFilename = PathField

----------------------------------------------------------------------------
(* Claims about the result of RunCommit.                                    *)

\* RunCommit returned.
CommitRan == commandRun.op = "RunCommit"

\* Every subprocess of the call succeeded.
AllSucceeded == \A i \in DOMAIN commandRun.commands : commandRun.commands[i].ok

\* C16 as stated: RunCommit returns true only if every add and every commit
\* it started succeeded, for at most 50 files and for more.
C16_AsStated == (CommitRan /\ commandRun.bResult) => AllSucceeded

\* C16: for more than 50 files RunCommit returns true exactly when every add
\* and every commit it started succeeded; for at most 50 files it returns
\* true exactly when the commit succeeded, whether the add did or not.
C16_CommitResult ==
    CommitRan =>
        (commandRun.bResult <=>
            IF SplitCall("RunCommit") THEN AllSucceeded
            ELSE commandRun.commands[Len(commandRun.commands)].ok)

\* RunCommit has returned true for at most 50 files after an add that
\* failed.
C16_Witness ==
    /\ CommitRan
    /\ ~SplitCall("RunCommit")
    /\ Len(commandRun.commands) = 2
    /\ commandRun.commands[1].InCommand = "add"
    /\ ~commandRun.commands[1].ok
    /\ commandRun.commands[2].InCommand = "commit"
    /\ commandRun.bResult

----------------------------------------------------------------------------
(* Claims about the result of UpdateCachedStates.                           *)

\* The files of the map whose fragment the last call did not reject.
UpdatedFiles ==
    { path \in DOMAIN merge.InResults : ~Rejects(StateBefore(path), merge.InResults[path]) }

\* C17 as stated: UpdateCachedStates returns true if and only if the call
\* updated at least one cached state: false for an empty map, false without
\* the module, and not true when every fragment of the map was rejected.
C17_AsStated ==
    merge.ran =>
        (merge.result <=> (merge.InResults # EmptyMap /\ merge.module /\ UpdatedFiles # {}))

\* C17: UpdateCachedStates returns false for an empty map and without the
\* module, leaving the cache as it was, and true in every other case, also
\* when every fragment of the map was rejected and the cache is as it was.
C17_UpdateResult ==
    merge.ran =>
        /\ merge.result <=> (merge.InResults # EmptyMap /\ merge.module)
        /\ ~merge.result => StateCache = merge.before
        /\ (merge.result /\ UpdatedFiles = {}) => StateCache = merge.before

\* The call returned true for a map of which it rejected every fragment.
C17_Witness ==
    /\ merge.ran
    /\ merge.result
    /\ merge.InResults # EmptyMap
    /\ UpdatedFiles = {}
    /\ StateCache = merge.before

----------------------------------------------------------------------------
(* Claims about the states of a status line.                                *)

\* A line was parsed, and it is not a conflict.
NonConflictLine == statusLine # NoLine /\ ~ConflictChars

\* The rules of the FileState in their order: the index chars and the
\* worktree chars a rule matches, and its FileState.
FileStateRules ==
    << [ index |-> {"?"}, wcopy |-> {"?"}, FileState |-> "Unknown" ],
       [ index |-> {"!"}, wcopy |-> {"!"}, FileState |-> "Unknown" ],
       [ index |-> {"A"}, wcopy |-> {}, FileState |-> "Added" ],
       [ index |-> {"D"}, wcopy |-> {}, FileState |-> "Deleted" ],
       [ index |-> {}, wcopy |-> {"D"}, FileState |-> "Missing" ],
       [ index |-> {"M"}, wcopy |-> {"M"}, FileState |-> "Modified" ],
       [ index |-> {"R"}, wcopy |-> {}, FileState |-> "Renamed" ],
       [ index |-> {"C"}, wcopy |-> {}, FileState |-> "Copied" ] >>

\* The rules the parsed line matches.
MatchingRules ==
    { i \in DOMAIN FileStateRules :
        statusLine[1] \in FileStateRules[i].index \/ statusLine[2] \in FileStateRules[i].wcopy }

\* The FileState of the first rule the parsed line matches.
FirstRuleState ==
    IF MatchingRules = {} THEN "Unknown"
    ELSE FileStateRules[CHOOSE i \in MatchingRules : \A j \in MatchingRules : i <= j].FileState

\* The parsed line has the code.
HasCode(code) == statusLine[1] = code[1] /\ statusLine[2] = code[2]

\* C18: for a line that is not a conflict the FileState is that of the first
\* rule the line matches, in the order '?', '!', index 'A', index 'D',
\* worktree 'D', 'M', index 'R', index 'C', and Unknown when it matches
\* none; with '?' the TreeState is Untracked, and else with '!' Ignored;
\* 'AD' and 'AM' are Added, 'MD' and 'RD' Missing, 'RM' Modified.
C18_FileStateRules ==
    NonConflictLine =>
        /\ parsed.FileState = FirstRuleState
        /\ parsed.FileState \in EFileState \ {"Unset"}
        /\ 1 \in MatchingRules => parsed.TreeState = "Untracked"
        /\ (2 \in MatchingRules /\ 1 \notin MatchingRules) => parsed.TreeState = "Ignored"
        /\ (HasCode(<<"A", "D">>) \/ HasCode(<<"A", "M">>)) => parsed.FileState = "Added"
        /\ (HasCode(<<"M", "D">>) \/ HasCode(<<"R", "D">>)) => parsed.FileState = "Missing"
        /\ HasCode(<<"R", "M">>) => parsed.FileState = "Modified"

\* The line "RD", which matches the rules of the worktree 'D' and of the
\* index 'R', was parsed as Missing.
C18_Witness ==
    /\ NonConflictLine
    /\ HasCode(<<"R", "D">>)
    /\ MatchingRules = {5, 7}
    /\ parsed.FileState = "Missing"

\* The chars of the status alphabet.
StatusAlphabet == {" ", "M", "A", "D", "R", "C", "?", "!"}

\* A line over the status alphabet was parsed, and it is not a conflict.
AlphabetLine ==
    NonConflictLine /\ statusLine[1] \in StatusAlphabet /\ statusLine[2] \in StatusAlphabet

\* The TreeStates the parser assigns to a line that is not a conflict.
AssignedTreeStates == {"Working", "Staged", "Untracked", "Ignored"}

\* The TreeState of the two spacing rules and the two overrides.
SpacingRules ==
    /\ 1 \in MatchingRules => parsed.TreeState = "Untracked"
    /\ (2 \in MatchingRules /\ 1 \notin MatchingRules) => parsed.TreeState = "Ignored"
    /\ (MatchingRules \cap {1, 2} = {} /\ statusLine[1] = " ") => parsed.TreeState = "Working"
    /\ (MatchingRules \cap {1, 2} = {} /\ statusLine[1] # " " /\ statusLine[2] = " ")
          => parsed.TreeState = "Staged"

\* C19 as stated: every line over the status alphabet that is not a conflict
\* gets a TreeState from the spacing rules or their overrides: Working for an
\* index ' ', Staged for a worktree ' ', Untracked for '?', Ignored for '!';
\* no line leaves the TreeState unassigned.
C19_AsStated ==
    AlphabetLine => (SpacingRules /\ parsed.TreeState \in AssignedTreeStates)

\* C19: a line over the status alphabet that is not a conflict gets its
\* TreeState from the spacing rules or their overrides when one of its chars
\* is ' ', '?' or '!'; a TreeState that is none of Working, Staged,
\* Untracked, Ignored is that of a line of two other chars, which no rule
\* assigns.
C19_TreeStateRules ==
    AlphabetLine =>
        /\ SpacingRules
        /\ parsed.TreeState \notin AssignedTreeStates =>
              /\ statusLine[1] \notin {" ", "?", "!"}
              /\ statusLine[2] \notin {" ", "?", "!"}

\* The line "MM" was parsed and its TreeState is no enumerator; the line
\* "RM" can end the same way.
C19_Witness ==
    /\ AlphabetLine
    /\ HasCode(<<"M", "M">>)
    /\ parsed.FileState = "Modified"
    /\ parsed.TreeState = "Indeterminate"

----------------------------------------------------------------------------
(* Claims about the pending restart.                                        *)

\* The names the upstream of the current branch reports that are not
\* lockable.
UpstreamMergeables ==
    IF remoteRun.bResults
    THEN { name \in Reported(remoteRun.CurrentBranchName) :
             ~IsFileLFSLockable(remoteRun.types, RelativePath(name)) }
    ELSE {}

\* The names of the build: the checksum, the binaries, the plugins.
BuildNames == { name \in RemoteNames : name = ".checksum" }

\* A path of the caller that is not lockable has the state it had.
MergeablesKeepState ==
    \A name \in RemoteNames :
        LET path == ConvertRelativePathToFull(RepositoryRoot, name)
        IN  (path \in DOMAIN remoteRun.OutStates
                /\ ~IsFileLFSLockable(remoteRun.types, RelativePath(name)))
            => remoteRun.OutStates[path] = remoteRun.InStates[path]

----------------------------------------------------------------------------
(* Claims about the entries and the refresh of a pass.                      *)

\* The explicit files of the pass that are lockable.
LockableFiles == { File \in statusPass.in.InFiles : IsFileLFSLockable(LockableTypes, File) }

\* Without locking the pass refreshes nothing and every entry is Unlockable.
UnlockableWithoutLocking ==
    ~statusPass.in.InUsingLfsLocking =>
        /\ statusPass.refreshes = 0
        /\ \A path \in DOMAIN OutStates : OutStates[path].LockState = "Unlockable"

LeftoverLines == (DOMAIN statusPass.in.InResults) \ statusPass.in.InFiles

\* The parser object of the line is Deleted, Missing or Untracked.
IsDeletedMissingUntracked(path) ==
    \/ statusPass.in.parse[path].FileState \in {"Deleted", "Missing"}
    \/ statusPass.in.parse[path].TreeState = "Untracked"

\* C23: after a pass every explicit path has its entry in the map, and a
\* line whose path is not explicit has an entry if and only if its parser
\* object is Deleted, Missing or Untracked, the entry carrying the states of
\* the parser object; a line of any other kind, Unmerged included, has none.
C23_PassEntries ==
    PassRan =>
        /\ statusPass.in.InFiles \subseteq DOMAIN OutStates
        /\ \A path \in LeftoverLines :
              /\ path \in DOMAIN OutStates <=> IsDeletedMissingUntracked(path)
              /\ path \in DOMAIN OutStates =>
                    /\ OutStates[path].FileState = statusPass.in.parse[path].FileState
                    /\ OutStates[path].TreeState = statusPass.in.parse[path].TreeState
        /\ DOMAIN OutStates \subseteq statusPass.in.InFiles \cup LeftoverLines

\* A pass with two lines of paths that are not explicit: the Deleted one
\* has an entry, the Unmerged one has none.
C23_Witness ==
    /\ PassRan
    /\ \E kept \in LeftoverLines, dropped \in LeftoverLines :
          /\ statusPass.in.parse[kept].FileState = "Deleted"
          /\ kept \in DOMAIN OutStates
          /\ statusPass.in.parse[dropped].FileState = "Unmerged"
          /\ dropped \notin DOMAIN OutStates

----------------------------------------------------------------------------
(* Claims about the tree lookups of the history.                            *)

\* The revision at the place has the hash of its own lookup.
IsAnnotated(i) ==
    historyRun.OutHistory[i].FileHash = FGitLsTreeParser(historyRun.OutHistory[i])

\* The lookup of a revision at the place or before it failed.
FailedUpTo(i) == \E j \in 1..i : historyRun.lsTree[j] = "fail"

\* C24 as stated: every revision whose own lookup succeeds and prints a blob
\* has the hash of that lookup, whether the lookups of other revisions failed
\* or not; a lookup that fails leaves only its own revision without a hash.
C24_AsStated ==
    HistoryParsed =>
        \A i \in DOMAIN historyRun.OutHistory :
            IsAnnotated(i) <=> historyRun.lsTree[i] = "blob"

\* C24: a revision has the hash of its own lookup exactly when that lookup
\* succeeds and prints a blob and no lookup of a revision before it in the
\* list failed; after a lookup that fails every later revision is left
\* without a hash, and RunGetHistory returns false.
C24_TreeLookups ==
    HistoryParsed =>
        /\ \A i \in DOMAIN historyRun.OutHistory :
              /\ IsAnnotated(i) <=> (historyRun.lsTree[i] = "blob" /\ ~FailedUpTo(i))
              /\ ~IsAnnotated(i) => historyRun.OutHistory[i].FileHash = NoFileHash
        /\ historyRun.bResults <=> ~FailedUpTo(Len(historyRun.OutHistory))

\* The lookup of the first of three revisions failed; the lookups of the two
\* others printed a blob, and they have no hash.
C24_Witness ==
    /\ HistoryParsed
    /\ Len(historyRun.OutHistory) = 3
    /\ historyRun.lsTree[1] = "fail"
    /\ historyRun.lsTree[2] = "blob" /\ historyRun.lsTree[3] = "blob"
    /\ historyRun.OutHistory[2].FileHash = NoFileHash
    /\ historyRun.OutHistory[3].FileHash = NoFileHash
    /\ ~historyRun.bResults

----------------------------------------------------------------------------
(* Claims about the fields of a merge.                                      *)

\* The field of the fragment is unset, or the fragment was rejected.
KeepsField(path, field) ==
    merge.InResults[path][field] = "Unset" \/ path \notin UpdatedFiles

\* The field of the cached entry is as the call found it.
SameField(path, field) == StateCache[path][field] = StateBefore(path)[field]

\* C25: after a merge, a field FileState, TreeState, LockState (with
\* LockUser) or RemoteState (with HeadBranch) that is Unset in the fragment
\* of a path is as it was in the cached entry; a field that is not Unset, of
\* a fragment that is not rejected, has the value of the fragment; the
\* entries of the paths the map does not have are as they were.
C25_UnsetKeeps ==
    MergeRan =>
        /\ \A path \in DOMAIN merge.InResults :
              /\ path \in DOMAIN StateCache
              /\ \A field \in {"FileState", "TreeState", "LockState", "RemoteState"} :
                    IF KeepsField(path, field) THEN SameField(path, field)
                    ELSE StateCache[path][field] = merge.InResults[path][field]
              /\ IF KeepsField(path, "LockState") THEN SameField(path, "LockUser")
                 ELSE StateCache[path].LockUser = merge.InResults[path].LockUser
              /\ KeepsField(path, "RemoteState") => SameField(path, "HeadBranch")
        /\ \A path \in DOMAIN merge.before :
              path \notin DOMAIN merge.InResults => StateCache[path] = merge.before[path]
        /\ DOMAIN StateCache = DOMAIN merge.before \cup DOMAIN merge.InResults

\* A fragment that sets the lock only was merged into an entry that was
\* Modified and Working, which it still is, while the entry of the other
\* path, which the map does not have, is as it was.
C25_Witness ==
    /\ MergeRan
    /\ \E path \in DOMAIN merge.InResults, other \in DOMAIN merge.before :
          /\ other \notin DOMAIN merge.InResults
          /\ path \in DOMAIN merge.before
          /\ merge.before[path].FileState = "Modified"
          /\ merge.before[path].LockState # "Locked"
          /\ merge.InResults[path].FileState = "Unset"
          /\ merge.InResults[path].LockState = "Locked"
          /\ StateCache[path].FileState = "Modified"
          /\ StateCache[path].TreeState = "Working"
          /\ StateCache[path].LockState = "Locked"

\* C26: whatever merges were made, a cached entry whose RemoteState is
\* UpToDate has an empty HeadBranch.
C26_UpToDateNoHead ==
    \A path \in DOMAIN StateCache :
        StateCache[path].RemoteState = "UpToDate" => StateCache[path].HeadBranch = ""

\* An entry that was NotLatest behind a branch was merged with an UpToDate
\* fragment that names the branch: its HeadBranch is empty.
C26_Witness ==
    /\ MergeRan
    /\ \E path \in DOMAIN merge.InResults :
          /\ path \in DOMAIN merge.before
          /\ merge.before[path].RemoteState = "NotLatest"
          /\ merge.before[path].HeadBranch = RemoteBranch
          /\ merge.InResults[path].RemoteState = "UpToDate"
          /\ merge.InResults[path].HeadBranch = RemoteBranch
          /\ StateCache[path].RemoteState = "UpToDate"
          /\ StateCache[path].HeadBranch = ""

\* The fragment of the path proposes Added for an entry that is neither
\* Unknown nor addable.
IsInvalidTransition(path) ==
    /\ merge.InResults[path].FileState = "Added"
    /\ ~IsUnknown(StateBefore(path))
    /\ ~CanAdd(StateBefore(path))

\* C29: a fragment that proposes Added for a cached entry that is neither
\* Unknown nor addable is dropped whole: the entry, its timestamp included,
\* is as it was, and the call does not add the path to the files to skip on
\* the next forced update; the other paths of the map are merged and added
\* to those files.
C29_RejectedDropped ==
    MergeRan =>
        \A path \in DOMAIN merge.InResults :
            IF IsInvalidTransition(path)
            THEN /\ StateCache[path] = StateBefore(path)
                 /\ path \in IgnoreForceCache <=> path \in merge.ignoreBefore
            ELSE /\ path \in IgnoreForceCache
                 /\ StateCache[path].TimeStamp =
                       IF merge.bUsingGitLfsLocking THEN now ELSE MinValue
                 /\ merge.InResults[path].FileState # "Unset"
                       => StateCache[path].FileState = merge.InResults[path].FileState

\* A map of two fragments: the one of a path cached as Modified proposes
\* Added and is dropped, the path is not among the files to skip; the one of
\* the other path is merged.
C29_Witness ==
    /\ MergeRan
    /\ \E path \in DOMAIN merge.InResults, other \in DOMAIN merge.InResults :
          /\ IsInvalidTransition(path)
          /\ merge.InResults[path].TreeState # "Unset"
          /\ StateCache[path] = merge.before[path]
          /\ path \notin IgnoreForceCache
          /\ ~IsInvalidTransition(other)
          /\ other \notin merge.ignoreBefore
          /\ other \in IgnoreForceCache
          /\ StateCache[other].FileState = merge.InResults[other].FileState

----------------------------------------------------------------------------
(* Claims about the lock cache and the read-only attribute.                 *)

\* The path is cached with the current identity as its owner.
OwnedByIdentity(locks, p) == p \in DOMAIN locks /\ locks[p] = LockUser

\* C27 as stated: after every lock-cache operation (a refresh that replaces
\* the cache, AddLockedFile, RemoveLockedFile) every path the cache gives to
\* the current identity is writable, and every path that stopped being
\* cached as the identity's has been set read-only.
C27_AsStated ==
    [][\A p \in DiskFiles :
          /\ OwnedByIdentity(LockedFiles', p) => ~readOnly'[p]
          /\ (OwnedByIdentity(LockedFiles, p) /\ ~OwnedByIdentity(LockedFiles', p))
                => readOnly'[p]]_vars

\* C27: the attribute follows the entries that enter or leave the cache.  A
\* path that was not cached and is now the identity's is writable, a path
\* that was the identity's and is no longer cached is read-only, and a path
\* AddLockedFile gives to the identity is writable (no AddLockedFile for
\* the identity leaves its path read-only); a refresh leaves the attribute
\* of every path cached before and after it as it was, whatever the owners
\* (no step that changes the attribute of such a path is a refresh).
C27_EntersAndLeaves ==
    [][\A p \in DiskFiles :
          /\ (p \notin DOMAIN LockedFiles /\ OwnedByIdentity(LockedFiles', p))
                => ~readOnly'[p]
          /\ (OwnedByIdentity(LockedFiles, p) /\ p \notin DOMAIN LockedFiles')
                => readOnly'[p]
          /\ (lockEdit'.filePath = p /\ lockEdit'.lockUser = LockUser /\ readOnly'[p])
                => ~AddLockedFile
          /\ (p \in DOMAIN LockedFiles /\ p \in DOMAIN LockedFiles'
                /\ readOnly'[p] # readOnly[p])
                => ~GetAllLocksBetweenEdits]_vars

\* A successful refresh then a removal: the identity owns one path, which
\* is writable, and its other path, removed from the cache, is read-only
\* again.
C27_Witness ==
    /\ lockCall.remote = "ok"
    /\ lockEdit.op = "RemoveLockedFile" /\ lockEdit.user = LockUser
    /\ ~lockEdit.readOnly[lockEdit.filePath]
    /\ readOnly[lockEdit.filePath]
    /\ \E p \in DiskFiles : OwnedByIdentity(LockedFiles, p) /\ ~readOnly[p]

----------------------------------------------------------------------------
(* Claims about the pending restart.                                        *)

\* C28: once the remote divergence check has set the pending restart, no
\* operation clears it, and every PullOrigin called from then on returns
\* false at once: it has run neither the lookup of the remote branch nor
\* the "diff", it starts no "pull", and it gives the main thread no package
\* to unload or reload.
C28_RestartRefusesPull ==
    [][/\ bPendingRestart => bPendingRestart'
       /\ (bPendingRestart /\ pullPc = "idle" /\ pullPc' # "idle")
            => /\ pullPc' = "returned"
               /\ pullCall'.result = FALSE
               /\ pullCall'.commands = <<>>
               /\ pullProcess' = "none"
               /\ mainThreadTasks' = mainThreadTasks]_vars

\* A pull refused after the remote divergence check has set the pending
\* restart.
C28_Witness ==
    /\ bPendingRestart
    /\ pullPc = "returned"
    /\ pullCall.result = FALSE
    /\ pullCall.commands = <<>>

----------------------------------------------------------------------------
(* Claims about what a refresh leaves alone.                                *)

\* C30: a refresh whose remote query failed leaves the lock cache, the
\* read-only attributes and the refresh time as they were, whether its
\* fallback queries succeeded or not; the cache or the refresh time change
\* only in a refresh whose remote query succeeded; and the non-forced
\* refresh that follows a refresh that found the cache older than the limit
\* and whose remote query failed queries the remote again.
C30_FallbackKeepsCache ==
    [][/\ (now' = now /\ lockCall'.remote = "fail")
            => /\ LockedFiles' = LockedFiles
               /\ LastUpdated' = LastUpdated
               /\ readOnly' = readOnly
       /\ (LockedFiles' # LockedFiles \/ LastUpdated' # LastUpdated)
            => lockCall'.remote = "ok"
       /\ (now' = now /\ lockCall.remote = "fail"
             /\ lockCall.time - LastUpdated > CacheLimit /\ ~lockCall'.q.force)
            => lockCall'.remote \in {"ok", "fail"}]_vars

\* A non-forced refresh found the cache older than the limit and its remote
\* query failed; later the next non-forced refresh queried the remote again,
\* failed too, and its fallback succeeded with locks the cache does not
\* hold: the cache still holds the lock of the last successful refresh, the
\* refresh time is still that refresh's.
C30_Witness ==
    /\ prevLockCall.remote = "fail" /\ ~prevLockCall.force
    /\ lockCall.remote = "fail" /\ ~lockCall.q.force /\ lockCall.fallback = "ok"
    /\ lockCall.time > prevLockCall.time
    /\ LockedFiles # EmptyMap
    /\ lockCall.out # LockedFiles
    /\ LastUpdated > MinValue /\ LastUpdated < prevLockCall.time

====
